---- MODULE Spec2Model ----
(***************************************************************************)
(* Lumio: the agent registry and the prepaid vault (Soroban contracts).   *)
(*                                                                         *)
(* One state machine holds the persisted storage of both contracts and    *)
(* the ledger clock.  Every public entry point is one action.  A call     *)
(* that panics is rolled back by the host, so its action leaves the       *)
(* storage as it was; where rejected calls are observed, the error is     *)
(* recorded in `last`.                                                     *)
(***************************************************************************)
EXTENDS Integers, Sequences, FiniteSets, TLC

(***************************************************************************)
(* Bounds of the model.                                                    *)
(***************************************************************************)
\* i128 is modelled on a narrow width: the largest representable amount.
MaxI128 == 6
\* how many days the ledger clock advances
MaxTicks == 1
\* how many runs are opened
MaxRuns == 2
\* how many agents are registered, and how many rate cards each publishes
MaxAgents == 1
MaxRateVersion == 1
\* the same where rejected calls are steps, and where the daily cap is exercised
ErrRuns == 1
CapRuns == 3
\* how many agents where grants for different agents are told apart
PairAgents == 2
\* the largest rate and the largest usage per dimension where pricing is checked
MaxUnit == 3
\* how many rate cards an agent publishes where re-pricing is checked
RateVersions == 2

(***************************************************************************)
(* Program constants.                                                      *)
(***************************************************************************)
SecondsPerDay == 86400
\* storage().get() of a key never written (Option::None of a u64 / u32)
Absent == -1

MinI128 == -MaxI128 - 1
\* the ledger clock advances a day at a time
TimeStep == SecondsPerDay

(***************************************************************************)
(* Principals and values.                                                  *)
(***************************************************************************)
Users == {"alice"}
Runners == {"bob", "rita"}
Developers == {"dev"}
Addr == Users \cup Runners \cup Developers
RegistryAddr == "registry"
NoAddr == "none"

Vec4(a, b, c, d) == [llm_in |-> a, llm_out |-> b, http_calls |-> c, runtime_ms |-> d]

\* Option<T>: None is the empty sequence, Some(v) the sequence <<v>>.
None == <<>>
Some(v) == <<v>>
IsSome(o) == Len(o) = 1
Unwrap(o) == o[1]

PolicyInput(per_run_cap, daily_cap, paused) ==
    [per_run_cap |-> per_run_cap, daily_cap |-> daily_cap, paused |-> paused]

(***************************************************************************)
(* State.                                                                  *)
(***************************************************************************)
VARIABLES
    now,            \* ledger timestamp
    \* agent registry storage
    nextAgentId,    \* DataKey::NextAgentId, Absent before init
    agents,         \* DataKey::Agent(id) -> AgentRecord
    rateCards,      \* DataKey::RateCard(id, version) -> rates
    \* prepaid vault storage
    agentRegistry,  \* DataKey::AgentRegistry, NoAddr before init
    nextRunId,      \* DataKey::NextRunId, Absent before init
    userBalance,    \* DataKey::UserBalance(addr), 0 when never written
    developerBalance, \* DataKey::DeveloperBalance(addr)
    userPolicy,     \* DataKey::UserPolicy(addr), default when never written
    runnerGrants,   \* DataKey::RunnerGrants(addr): Option<Vec<RunnerGrant>>
    runs,           \* DataKey::Run(id) -> RunRecord
    \* the last call: entry point, arguments that identify it, result
    last,
    \* history: for each user, the balances read just before the user's latest
    \* successful open_run, kept while no other call wrote them
    audit,
    \* history: for each user, the daily_cap in force when the user's first run
    \* was opened if set_policy has not changed it since (0 once it has), Absent
    \* while the user has opened no run
    capSince

registryVars == <<nextAgentId, agents, rateCards>>
vaultVars == <<agentRegistry, nextRunId, userBalance, developerBalance,
               userPolicy, runnerGrants, runs>>
vars == <<now, nextAgentId, agents, rateCards, agentRegistry, nextRunId,
          userBalance, developerBalance, userPolicy, runnerGrants, runs, last,
          audit, capSince>>

OK == "Ok"
\* a panic that carries no contract error (unwrap of None, failed cross-contract call)
Trap == "Trap"

DefaultPolicy ==
    [per_run_cap |-> 0, daily_cap |-> 0, paused |-> FALSE,
     reserved_today |-> 0, reserved_day |-> 0]

NoReceipt == [run_id |-> 0, actual_charge |-> 0, refund |-> 0, developer |-> NoAddr]

\* what a call leaves for its caller to see: the entry point, the principal and
\* the run it named, its other arguments, the error (OK when it returned) and
\* the returned value
Call(op, err) ==
    [op |-> op, err |-> err, user |-> NoAddr, caller |-> NoAddr,
     run_id |-> 0, args |-> <<>>, ret |-> 0, receipt |-> NoReceipt]

NoAudit == [run_id |-> 0, user_before |-> 0, dev_before |-> <<>>]

\* a call's outcome reaches `last` when the call returned, or when rejected calls
\* are observed (`seen`); a rejected call is rolled back and otherwise leaves no trace
Reply(seen, call) == last' = IF seen \/ call.err = OK THEN call ELSE last

\* the host reverts every write of a call that panics: what a storage key holds
\* after a call that had written `written` to it by the time it ended with `err`
not_rolled_back(err, written, before) == written
rolled_back(err, written, before) == IF err = OK THEN written ELSE before

Init ==
    /\ now = 0
    /\ nextAgentId = Absent
    /\ agents = <<>>
    /\ rateCards = <<>>
    /\ agentRegistry = NoAddr
    /\ nextRunId = Absent
    /\ userBalance = [a \in Addr |-> 0]
    /\ developerBalance = [a \in Addr |-> 0]
    /\ userPolicy = [a \in Addr |-> DefaultPolicy]
    /\ runnerGrants = [a \in Addr |-> None]
    /\ runs = <<>>
    /\ last = Call("deploy", OK)
    /\ audit = [u \in Users |-> NoAudit]
    /\ capSince = [u \in Users |-> Absent]

(***************************************************************************)
(* Ledger clock.                                                           *)
(***************************************************************************)
current_day == now \div SecondsPerDay

AdvanceTime ==
    /\ now' = now + TimeStep
    /\ last' = Call("advance_time", OK)
    /\ UNCHANGED <<registryVars, vaultVars, audit, capSince>>

(***************************************************************************)
(* Checked i128 arithmetic.                                                *)
(***************************************************************************)
Fits(x) == MinI128 <= x /\ x <= MaxI128
checked_add(a, b) == IF Fits(a + b) THEN Some(a + b) ELSE None
checked_mul(a, b) == IF Fits(a * b) THEN Some(a * b) ELSE None

(***************************************************************************)
(* Agent registry.                                                         *)
(***************************************************************************)
validate_non_negative(r) ==
    r.llm_in >= 0 /\ r.llm_out >= 0 /\ r.http_calls >= 0 /\ r.runtime_ms >= 0

contains_address(vec, addr) == \E i \in 1..Len(vec) : vec[i] = addr

\* register_agent: the runners in order, each kept once
RECURSIVE normalize_runners(_, _)
normalize_runners(runners, acc) ==
    IF runners = <<>> THEN acc
    ELSE normalize_runners(Tail(runners),
            IF contains_address(acc, Head(runners)) THEN acc
            ELSE Append(acc, Head(runners)))

filter_runner(runners, runner) ==
    SelectSeq(runners, LAMBDA existing : existing # runner)

RegistryInit(seen) ==
    LET err == IF nextAgentId # Absent THEN "AlreadyInitialized" ELSE OK IN
    /\ nextAgentId' = IF err = OK THEN 1 ELSE nextAgentId
    /\ Reply(seen, Call("registry_init", err))
    /\ UNCHANGED <<now, agents, rateCards, vaultVars, audit, capSince>>

RegisterAgentErr(runners, rates) ==
    IF Len(runners) = 0 THEN "InvalidRunnerList"
    ELSE IF ~validate_non_negative(rates) THEN "InvalidRates"
    ELSE IF Len(normalize_runners(runners, <<>>)) = 0 THEN "InvalidRunnerList"
    ELSE OK

RegisterAgent(seen, developer, runners, rates) ==
    LET err == RegisterAgentErr(runners, rates)
        agent_id == IF nextAgentId = Absent THEN 1 ELSE nextAgentId
        record == [developer |-> developer,
                   runners |-> normalize_runners(runners, <<>>),
                   latest_rate_version |-> 1]
    IN
    /\ IF err = OK
       THEN /\ nextAgentId' = agent_id + 1
            /\ agents' = agents @@ (agent_id :> record)
            /\ rateCards' = (<<agent_id, 1>> :> rates) @@ rateCards
       ELSE UNCHANGED <<nextAgentId, agents, rateCards>>
    /\ Reply(seen, [Call("register_agent", err) EXCEPT
                    !.user = developer, !.args = <<runners, rates>>, !.ret = IF err = OK THEN agent_id ELSE 0])
    /\ UNCHANGED <<now, vaultVars, audit, capSince>>

AddRunner(seen, agent_id, runner) ==
    LET err == IF agent_id \notin DOMAIN agents THEN "AgentNotFound" ELSE OK IN
    /\ IF err = OK
       THEN agents' = [agents EXCEPT ![agent_id].runners =
                          IF contains_address(@, runner) THEN @ ELSE Append(@, runner)]
       ELSE UNCHANGED agents
    /\ Reply(seen, [Call("add_runner", err) EXCEPT !.caller = runner, !.args = <<agent_id>>])
    /\ UNCHANGED <<now, nextAgentId, rateCards, vaultVars, audit, capSince>>

RemoveRunnerErrAllowsEmpty(agent_id, runner) ==
    IF agent_id \notin DOMAIN agents THEN "AgentNotFound"
    ELSE IF ~contains_address(agents[agent_id].runners, runner) THEN "RunnerNotFound"
    ELSE OK

RemoveRunnerErr(agent_id, runner) ==
    IF agent_id \notin DOMAIN agents THEN "AgentNotFound"
    ELSE LET filtered == filter_runner(agents[agent_id].runners, runner) IN
         IF Len(filtered) = 0 THEN "InvalidRunnerList"
         ELSE IF Len(filtered) = Len(agents[agent_id].runners) THEN "RunnerNotFound"
         ELSE OK

RemoveRunner(seen, agent_id, runner) ==
    LET err == RemoveRunnerErr(agent_id, runner) IN
    /\ IF err = OK
       THEN agents' = [agents EXCEPT ![agent_id].runners = filter_runner(@, runner)]
       ELSE UNCHANGED agents
    /\ Reply(seen, [Call("remove_runner", err) EXCEPT
                    !.caller = runner, !.args = <<agent_id>>])
    /\ UNCHANGED <<now, nextAgentId, rateCards, vaultVars, audit, capSince>>

PublishRateCardErr(agent_id, rates) ==
    IF ~validate_non_negative(rates) THEN "InvalidRates"
    ELSE IF agent_id \notin DOMAIN agents THEN "AgentNotFound"
    ELSE OK

latest_rate_version_again(record) == record.latest_rate_version

\* the version publish_rate_card writes: the one after the agent's latest
next_rate_version(record) == record.latest_rate_version + 1

PublishRateCard(seen, agent_id, rates) ==
    LET err == PublishRateCardErr(agent_id, rates)
        next_version == next_rate_version(agents[agent_id])
    IN
    /\ IF err = OK
       THEN /\ rateCards' = [k \in DOMAIN rateCards \cup {<<agent_id, next_version>>} |->
                                IF k = <<agent_id, next_version>> THEN rates
                                ELSE rateCards[k]]
            /\ agents' = [agents EXCEPT ![agent_id].latest_rate_version = next_version]
       ELSE UNCHANGED <<agents, rateCards>>
    /\ Reply(seen, [Call("publish_rate_card", err) EXCEPT
                    !.args = <<agent_id, rates>>,
                    !.ret = IF err = OK THEN next_version ELSE 0])
    /\ UNCHANGED <<now, nextAgentId, vaultVars, audit, capSince>>

\* the three reads the vault makes; each traps when the agent (or card) is absent
HasAgent(agent_id) == agent_id \in DOMAIN agents
HasRateCard(agent_id, version) == <<agent_id, version>> \in DOMAIN rateCards
get_rate_card(agent_id, version) == rateCards[<<agent_id, version>>]
is_runner_any(agent_id, runner) == TRUE
is_runner(agent_id, runner) == contains_address(agents[agent_id].runners, runner)
developer_of(agent_id) == agents[agent_id].developer

(***************************************************************************)
(* Prepaid vault: pure helpers.                                            *)
(***************************************************************************)
\* a pricing step without the overflow signal: the total saturates at the largest amount
charge_step_saturating(total, rate, usage) ==
    IF Unwrap(total) + rate * usage > MaxI128 THEN Some(MaxI128)
    ELSE Some(Unwrap(total) + rate * usage)

\* total.checked_add(rate.checked_mul(usage)?)? for one dimension
charge_step(total, rate, usage) ==
    IF ~IsSome(total) THEN None
    ELSE LET m == checked_mul(rate, usage) IN
         IF ~IsSome(m) THEN None ELSE checked_add(Unwrap(total), Unwrap(m))

compute_charge(rates, usage) ==
    charge_step(
      charge_step(
        charge_step(
          charge_step(Some(0), rates.llm_in, usage.llm_in),
          rates.llm_out, usage.llm_out),
        rates.http_calls, usage.http_calls),
      rates.runtime_ms, usage.runtime_ms)

validate_non_negative_usage(u) ==
    u.llm_in >= 0 /\ u.llm_out >= 0 /\ u.http_calls >= 0 /\ u.runtime_ms >= 0

ensure_day_keeps_reserved(policy, today) ==
    IF policy.reserved_day # today THEN [policy EXCEPT !.reserved_day = today] ELSE policy

ensure_day(policy, today) ==
    IF policy.reserved_day # today
    THEN [policy EXCEPT !.reserved_day = today, !.reserved_today = 0]
    ELSE policy

read_runner_grants(user) ==
    IF IsSome(runnerGrants[user]) THEN Unwrap(runnerGrants[user]) ELSE <<>>

write_runner_grants_keeps_empty(grants) == Some(grants)

\* the value write_runner_grants leaves under DataKey::RunnerGrants(user)
write_runner_grants(grants) == IF Len(grants) = 0 THEN None ELSE Some(grants)

prune_nothing(grants) == grants

\* pruning that also drops the grants that have not expired yet
prune_all_dated(grants) == SelectSeq(grants, LAMBDA g : ~IsSome(g.expires_at))

prune_expired_grants(grants) ==
    SelectSeq(grants, LAMBDA g : ~(IsSome(g.expires_at) /\ Unwrap(g.expires_at) <= now))

remove_nothing(grants, runner, agent_id) == [filtered |-> grants, removed |-> FALSE]

remove_runner_grant(grants, runner, agent_id) ==
    [filtered |-> SelectSeq(grants,
                     LAMBDA g : ~(g.runner = runner /\ g.agent_id = agent_id)),
     removed |-> \E i \in 1..Len(grants) :
                     grants[i].runner = runner /\ grants[i].agent_id = agent_id]

ensure_runner_authorized_any_agent(user, runner, agent_id) ==
    LET grants == prune_expired_grants(read_runner_grants(user))
        authorized == \E i \in 1..Len(grants) : grants[i].runner = runner
    IN
    IF authorized
    THEN IF agentRegistry = NoAddr
         THEN [err |-> "NotInitialized", result |-> FALSE, store |-> runnerGrants[user]]
         ELSE IF ~HasAgent(agent_id)
         THEN [err |-> Trap, result |-> FALSE, store |-> runnerGrants[user]]
         ELSE IF ~is_runner(agent_id, runner)
         THEN [err |-> OK, result |-> FALSE,
               store |-> write_runner_grants(
                            remove_runner_grant(grants, runner, agent_id).filtered)]
         ELSE [err |-> OK, result |-> TRUE, store |-> write_runner_grants(grants)]
    ELSE [err |-> OK, result |-> FALSE, store |-> write_runner_grants(grants)]

\* ensure_runner_authorized: the error it panics with, else its result, and the
\* grant list it writes back
ensure_runner_authorized(user, runner, agent_id) ==
    LET grants == prune_expired_grants(read_runner_grants(user))
        authorized == \E i \in 1..Len(grants) :
                          grants[i].runner = runner /\ grants[i].agent_id = agent_id
    IN
    IF authorized
    THEN IF agentRegistry = NoAddr
         THEN [err |-> "NotInitialized", result |-> FALSE, store |-> runnerGrants[user]]
         ELSE IF ~HasAgent(agent_id)
         THEN [err |-> Trap, result |-> FALSE, store |-> runnerGrants[user]]
         ELSE IF ~is_runner(agent_id, runner)
         THEN [err |-> OK, result |-> FALSE,
               store |-> write_runner_grants(
                            remove_runner_grant(grants, runner, agent_id).filtered)]
         ELSE [err |-> OK, result |-> TRUE, store |-> write_runner_grants(grants)]
    ELSE [err |-> OK, result |-> FALSE, store |-> write_runner_grants(grants)]

release_reserved_unclamped(user, amount) ==
    [ensure_day(userPolicy[user], current_day) EXCEPT !.reserved_today = @ - amount]

release_reserved_none(user, amount) == ensure_day(userPolicy[user], current_day)

\* release_reserved: the policy it writes
release_reserved(user, amount) ==
    LET policy == ensure_day(userPolicy[user], current_day) IN
    IF policy.reserved_today >= amount
    THEN [policy EXCEPT !.reserved_today = @ - amount]
    ELSE [policy EXCEPT !.reserved_today = 0]

(***************************************************************************)
(* Prepaid vault: entry points.  require_auth is taken to pass: a call is  *)
(* made by the principal it names.                                         *)
(***************************************************************************)
OpenTag == [tag |-> "Open"]
CancelledTag == [tag |-> "Cancelled"]
Finalized(settlement) == [tag |-> "Finalized", settlement |-> settlement]

is_open_always(record) == TRUE
is_open(record) == record.lifecycle = OpenTag

\* the history after a call that wrote the balances of `users` and the developer
\* balances of `devs`: an entry is dropped once another call writes a balance it
\* recorded, or once its run was closed by an earlier call
Audited(users, devs, own) ==
    [u \in Users |->
        LET a == audit[u] IN
        IF a.run_id = 0 \/ a.run_id = own THEN a
        ELSE IF runs[a.run_id].lifecycle.tag # "Open" THEN NoAudit
        ELSE IF u \in users \/ devs # {} THEN NoAudit
        ELSE a]

VaultInitErr == IF agentRegistry # NoAddr THEN "AlreadyInitialized" ELSE OK

VaultInit(seen, registry) ==
    LET err == VaultInitErr IN
    /\ IF err = OK
       THEN agentRegistry' = registry /\ nextRunId' = 1
       ELSE UNCHANGED <<agentRegistry, nextRunId>>
    /\ Reply(seen, Call("init", err))
    /\ UNCHANGED <<now, registryVars, userBalance, developerBalance, userPolicy,
                   runnerGrants, runs, audit, capSince>>

DepositErr(user, amount) ==
    IF amount <= 0 THEN "InvalidAmount"
    ELSE IF ~IsSome(checked_add(userBalance[user], amount)) THEN Trap
    ELSE OK

Deposit(seen, user, amount) ==
    LET err == DepositErr(user, amount) IN
    /\ IF err = OK
       THEN /\ userBalance' = [userBalance EXCEPT ![user] = @ + amount]
            /\ audit' = Audited({user}, {}, 0)
       ELSE UNCHANGED <<userBalance, audit>>
    /\ Reply(seen, [Call("deposit", err) EXCEPT !.user = user, !.args = <<amount>>])
    /\ UNCHANGED <<now, registryVars, agentRegistry, nextRunId, developerBalance,
                   userPolicy, runnerGrants, runs, capSince>>

WithdrawErrNoBalanceCheck(user, amount) == IF amount <= 0 THEN "InvalidAmount" ELSE OK

WithdrawErr(user, amount) ==
    IF amount <= 0 THEN "InvalidAmount"
    ELSE IF userBalance[user] < amount THEN "InsufficientBalance"
    ELSE OK

Withdraw(seen, user, amount) ==
    LET err == WithdrawErr(user, amount) IN
    /\ IF err = OK
       THEN /\ userBalance' = [userBalance EXCEPT ![user] = @ - amount]
            /\ audit' = Audited({user}, {}, 0)
       ELSE UNCHANGED <<userBalance, audit>>
    /\ Reply(seen, [Call("withdraw", err) EXCEPT !.user = user, !.args = <<amount>>])
    /\ UNCHANGED <<now, registryVars, agentRegistry, nextRunId, developerBalance,
                   userPolicy, runnerGrants, runs, capSince>>

SetPolicyErr(policy) ==
    IF policy.per_run_cap < 0 \/ policy.daily_cap < 0 THEN "InvalidAmount" ELSE OK

SetPolicy(seen, user, policy) ==
    LET err == SetPolicyErr(policy) IN
    /\ IF err = OK
       THEN /\ userPolicy' = [userPolicy EXCEPT ![user] =
                   [@ EXCEPT !.per_run_cap = policy.per_run_cap,
                             !.daily_cap = policy.daily_cap,
                             !.paused = policy.paused]]
            /\ capSince' = [capSince EXCEPT ![user] =
                   IF @ = Absent \/ policy.daily_cap = userPolicy[user].daily_cap
                   THEN @ ELSE 0]
       ELSE UNCHANGED <<userPolicy, capSince>>
    /\ Reply(seen, [Call("set_policy", err) EXCEPT !.user = user, !.args = <<policy>>])
    /\ UNCHANGED <<now, registryVars, agentRegistry, nextRunId, userBalance,
                   developerBalance, runnerGrants, runs, audit>>

ClaimDeveloperErr(developer, amount) ==
    IF amount <= 0 THEN "InvalidAmount"
    ELSE IF developerBalance[developer] < amount THEN "InsufficientBalance"
    ELSE OK

ClaimDeveloper(seen, developer, amount) ==
    LET err == ClaimDeveloperErr(developer, amount) IN
    /\ IF err = OK
       THEN /\ developerBalance' = [developerBalance EXCEPT ![developer] = @ - amount]
            /\ audit' = Audited({}, {developer}, 0)
       ELSE UNCHANGED <<developerBalance, audit>>
    /\ Reply(seen, [Call("claim_developer", err) EXCEPT
                    !.user = developer, !.args = <<amount>>])
    /\ UNCHANGED <<now, registryVars, agentRegistry, nextRunId, userBalance,
                   userPolicy, runnerGrants, runs, capSince>>

(***************************************************************************)
(* Runner grants.                                                          *)
(***************************************************************************)
has_grant_never(grants, runner, agent_id) == FALSE

has_grant(grants, runner, agent_id) ==
    \E i \in 1..Len(grants) : grants[i].runner = runner /\ grants[i].agent_id = agent_id

GrantRunnerErr(user, runner, agent_id) ==
    IF runner = user THEN "InvalidAmount"
    ELSE IF agentRegistry = NoAddr THEN "NotInitialized"
    ELSE IF ~HasAgent(agent_id) THEN Trap
    ELSE IF ~is_runner(agent_id, runner) THEN "UnauthorizedRunner"
    ELSE IF has_grant(prune_expired_grants(read_runner_grants(user)), runner, agent_id)
    THEN "RunnerGrantExists"
    ELSE OK

GrantRunner(seen, user, runner, agent_id, expires_at) ==
    LET err == GrantRunnerErr(user, runner, agent_id)
        grant == [runner |-> runner, agent_id |-> agent_id, issued_at |-> now,
                  expires_at |-> expires_at]
        grants == Append(prune_expired_grants(read_runner_grants(user)), grant)
    IN
    /\ IF err = OK
       THEN runnerGrants' = [runnerGrants EXCEPT ![user] = write_runner_grants(grants)]
       ELSE UNCHANGED runnerGrants
    /\ Reply(seen, [Call("grant_runner", err) EXCEPT
                    !.user = user, !.caller = runner, !.args = <<agent_id, expires_at>>])
    /\ UNCHANGED <<now, registryVars, agentRegistry, nextRunId, userBalance,
                   developerBalance, userPolicy, runs, audit, capSince>>

RevokeRunnerErr(user, runner, agent_id) ==
    IF ~remove_runner_grant(prune_expired_grants(read_runner_grants(user)),
                            runner, agent_id).removed
    THEN "RunnerGrantNotFound"
    ELSE OK

RevokeRunner(seen, user, runner, agent_id) ==
    LET err == RevokeRunnerErr(user, runner, agent_id)
        filtered == remove_runner_grant(prune_expired_grants(read_runner_grants(user)),
                                        runner, agent_id).filtered
    IN
    /\ IF err = OK
       THEN runnerGrants' = [runnerGrants EXCEPT ![user] = write_runner_grants(filtered)]
       ELSE UNCHANGED runnerGrants
    /\ Reply(seen, [Call("revoke_runner", err) EXCEPT
                    !.user = user, !.caller = runner, !.args = <<agent_id>>])
    /\ UNCHANGED <<now, registryVars, agentRegistry, nextRunId, userBalance,
                   developerBalance, userPolicy, runs, audit, capSince>>

ListRunnerGrants(seen, user) ==
    LET grants == prune_expired_grants(read_runner_grants(user)) IN
    /\ runnerGrants' = [runnerGrants EXCEPT ![user] = write_runner_grants(grants)]
    /\ Reply(seen, [Call("list_runner_grants", OK) EXCEPT !.user = user, !.ret = grants])
    /\ UNCHANGED <<now, registryVars, agentRegistry, nextRunId, userBalance,
                   developerBalance, userPolicy, runs, audit, capSince>>

IsRunnerAuthorized(seen, user, runner, agent_id) ==
    LET auth == ensure_runner_authorized(user, runner, agent_id) IN
    /\ IF auth.err = OK
       THEN runnerGrants' = [runnerGrants EXCEPT ![user] = auth.store]
       ELSE UNCHANGED runnerGrants
    /\ Reply(seen, [Call("is_runner_authorized", auth.err) EXCEPT
                    !.user = user, !.caller = runner, !.args = <<agent_id>>,
                    !.ret = auth.result])
    /\ UNCHANGED <<now, registryVars, agentRegistry, nextRunId, userBalance,
                   developerBalance, userPolicy, runs, audit, capSince>>

(***************************************************************************)
(* Run lifecycle.                                                          *)
(***************************************************************************)
exceeds_per_run_cap_never(policy, max_charge) == FALSE
exceeds_per_run_cap(policy, max_charge) ==
    policy.per_run_cap > 0 /\ max_charge > policy.per_run_cap

policy_paused_never(policy) == FALSE
policy_paused(policy) == policy.paused

\* open_run up to its first panic: the error, the price, the policy and grant
\* list it has written by then, and which keys it has written
open_run(user, caller, agent_id, rate_version, budgets) ==
    LET auth == IF caller # user
                THEN ensure_runner_authorized(user, caller, agent_id)
                ELSE [err |-> OK, result |-> TRUE, store |-> runnerGrants[user]]
        w0 == IF caller # user /\ auth.err = OK THEN {"grants"} ELSE {}
        priced == compute_charge(get_rate_card(agent_id, rate_version), budgets)
        max_charge == Unwrap(priced)
        policy == ensure_day(userPolicy[user], current_day)
        new_reserved == checked_add(policy.reserved_today, max_charge)
        reserved == IF policy.daily_cap > 0
                    THEN [policy EXCEPT !.reserved_today = Unwrap(new_reserved)]
                    ELSE policy
        Fail(e, w) == [err |-> e, max_charge |-> 0,
                       policy |-> IF "policy" \in w THEN reserved ELSE userPolicy[user],
                       store |-> IF "grants" \in w THEN auth.store ELSE runnerGrants[user],
                       writes |-> w]
    IN
    IF auth.err # OK THEN Fail(auth.err, {})
    ELSE IF ~auth.result THEN Fail("UnauthorizedRunner", w0)
    ELSE IF ~validate_non_negative_usage(budgets) THEN Fail("InvalidAmount", w0)
    ELSE IF agentRegistry = NoAddr THEN Fail("NotInitialized", w0)
    ELSE IF ~HasRateCard(agent_id, rate_version) THEN Fail(Trap, w0)
    ELSE IF ~IsSome(priced) THEN Fail("InvalidAmount", w0)
    ELSE IF policy_paused(policy) THEN Fail("PolicyPaused", w0)
    ELSE IF exceeds_per_run_cap(policy, max_charge)
    THEN Fail("PerRunCapExceeded", w0)
    ELSE IF policy.daily_cap > 0 /\ ~IsSome(new_reserved) THEN Fail("DailyCapExceeded", w0)
    ELSE IF policy.daily_cap > 0 /\ Unwrap(new_reserved) > policy.daily_cap
    THEN Fail("DailyCapExceeded", w0)
    ELSE IF userBalance[user] < max_charge
    THEN Fail("InsufficientBalance", w0 \cup {"policy"})
    ELSE [err |-> OK, max_charge |-> max_charge, policy |-> reserved,
          store |-> auth.store, writes |-> w0 \cup {"policy", "balance", "run"}]

escrow_debit_none(balance, max_charge) == balance
escrow_debit(balance, max_charge) == balance - max_charge

opened_record(user, caller, agent_id, rate_version, budgets, max_charge) ==
    [user |-> user, opened_by |-> caller, agent_id |-> agent_id,
     rate_version |-> rate_version, budgets |-> budgets,
     max_charge |-> max_charge, escrowed |-> max_charge,
     opened_at |-> now, lifecycle |-> OpenTag]

next_run_id_reused ==
    IF nextRunId = Absent \/ nextRunId = 1 THEN 1 ELSE nextRunId - 1

\* next_run_id: the id it returns; it stores that id plus one
next_run_id == IF nextRunId = Absent THEN 1 ELSE nextRunId

OpenRun(seen, user, caller, agent_id, rate_version, budgets) ==
    LET out == open_run(user, caller, agent_id, rate_version, budgets)
        run_id == next_run_id
        record == opened_record(user, caller, agent_id, rate_version, budgets,
                                out.max_charge)
    IN
    /\ runnerGrants' = rolled_back(out.err, [runnerGrants EXCEPT ![user] = out.store],
                                   runnerGrants)
    /\ userPolicy' = rolled_back(out.err, [userPolicy EXCEPT ![user] = out.policy],
                                 userPolicy)
    /\ IF out.err = OK
       THEN /\ userBalance' = [userBalance EXCEPT ![user] = escrow_debit(@, out.max_charge)]
            /\ nextRunId' = run_id + 1
            /\ runs' = (run_id :> record) @@ runs
            /\ audit' = [Audited({user}, {}, 0) EXCEPT ![user] =
                            [run_id |-> run_id, user_before |-> userBalance[user],
                             dev_before |-> developerBalance]]
            /\ capSince' = [capSince EXCEPT ![user] =
                   IF @ = Absent THEN userPolicy[user].daily_cap ELSE @]
       ELSE UNCHANGED <<userBalance, nextRunId, runs, audit, capSince>>
    /\ Reply(seen, [Call("open_run", out.err) EXCEPT
                    !.user = user, !.caller = caller,
                    !.args = <<agent_id, rate_version, budgets>>,
                    !.run_id = IF out.err = OK THEN run_id ELSE 0,
                    !.ret = IF out.err = OK THEN run_id ELSE 0])
    /\ UNCHANGED <<now, registryVars, agentRegistry, developerBalance>>

refund_of_whole(max_charge, actual_charge) == max_charge
refund_of(max_charge, actual_charge) == max_charge - actual_charge

developer_credit_none(dev_balance, actual_charge) == Some(dev_balance)
developer_credit(dev_balance, actual_charge) == checked_add(dev_balance, actual_charge)

cancel_refund_none(balance, record) == Some(balance)
cancel_refund(balance, record) == checked_add(balance, record.escrowed)

finalized_record(record, usage, actual_charge, refund, output_hash) ==
    [record EXCEPT
        !.escrowed = 0,
        !.lifecycle = Finalized([usage |-> usage, actual_charge |-> actual_charge,
                                 refund |-> refund, output_hash |-> output_hash])]

cancelled_record_keeps_escrow(record) == [record EXCEPT !.lifecycle = CancelledTag]
cancelled_record(record) ==
    [record EXCEPT !.escrowed = 0, !.lifecycle = CancelledTag]

rate_version_differs_never(rate_version, record) == FALSE
rate_version_differs(rate_version, record) == rate_version # record.rate_version

exceeds_budget_never(usage, budgets) == FALSE

exceeds_budget(usage, budgets) ==
    \/ usage.llm_in > budgets.llm_in
    \/ usage.llm_out > budgets.llm_out
    \/ usage.http_calls > budgets.http_calls
    \/ usage.runtime_ms > budgets.runtime_ms

\* finalize_run up to its first panic: the error, and what it has computed and
\* written by then
finalize_run(run_id, runner, rate_version, usage, output_hash) ==
    LET record == runs[run_id]
        developer == developer_of(record.agent_id)
        auth == ensure_runner_authorized(record.user, runner, record.agent_id)
        priced == compute_charge(get_rate_card(record.agent_id, record.rate_version),
                                 usage)
        actual_charge == Unwrap(priced)
        refund == refund_of(record.max_charge, actual_charge)
        new_dev_balance == developer_credit(developerBalance[developer], actual_charge)
        new_user_balance == checked_add(userBalance[record.user], refund)
        Fail(e, w) == [err |-> e, writes |-> w,
                       developer |-> IF "developer_balance" \in w THEN developer
                                     ELSE NoAddr,
                       actual_charge |-> 0, refund |-> 0,
                       dev_balance |-> IF "developer_balance" \in w
                                       THEN Unwrap(new_dev_balance) ELSE 0,
                       user_balance |-> 0,
                       store |-> IF "grants" \in w THEN auth.store ELSE None,
                       policy |-> DefaultPolicy, record |-> <<>>]
    IN
    IF ~validate_non_negative_usage(usage) THEN Fail("InvalidAmount", {})
    ELSE IF run_id \notin DOMAIN runs THEN Fail("RunNotFound", {})
    ELSE IF ~is_open(record) THEN Fail("RunNotOpen", {})
    ELSE IF rate_version_differs(rate_version, record)
    THEN Fail("InvalidRateVersion", {})
    ELSE IF exceeds_budget(usage, record.budgets) THEN Fail("UsageExceedsBudget", {})
    ELSE IF agentRegistry = NoAddr THEN Fail("NotInitialized", {})
    ELSE IF ~HasAgent(record.agent_id) THEN Fail(Trap, {})
    ELSE IF ~is_runner(record.agent_id, runner) THEN Fail("UnauthorizedRunner", {})
    ELSE IF ~HasRateCard(record.agent_id, record.rate_version) THEN Fail(Trap, {})
    ELSE IF auth.err # OK THEN Fail(auth.err, {})
    ELSE IF ~auth.result THEN Fail("UnauthorizedRunner", {"grants"})
    ELSE IF ~IsSome(priced) THEN Fail("InvalidAmount", {"grants"})
    ELSE IF actual_charge > record.max_charge THEN Fail("UsageExceedsBudget", {"grants"})
    ELSE IF ~IsSome(new_dev_balance) THEN Fail("InvalidAmount", {"grants"})
    ELSE IF ~IsSome(new_user_balance)
    THEN Fail("InvalidAmount", {"grants", "developer_balance"})
    ELSE [err |-> OK,
          writes |-> {"grants", "developer_balance", "balance", "policy", "run"},
          developer |-> developer,
          actual_charge |-> actual_charge,
          refund |-> refund,
          dev_balance |-> Unwrap(new_dev_balance),
          user_balance |-> Unwrap(new_user_balance),
          store |-> auth.store,
          policy |-> release_reserved(record.user, record.max_charge),
          record |-> finalized_record(record, usage, actual_charge, refund,
                                      output_hash)]

FinalizeRun(seen, run_id, runner, rate_version, usage, output_hash) ==
    LET out == finalize_run(run_id, runner, rate_version, usage, output_hash)
        user == runs[run_id].user
    IN
    /\ runnerGrants' =
          IF "grants" \in out.writes
          THEN rolled_back(out.err, [runnerGrants EXCEPT ![user] = out.store],
                           runnerGrants)
          ELSE runnerGrants
    /\ developerBalance' =
          IF "developer_balance" \in out.writes
          THEN rolled_back(out.err,
                           [developerBalance EXCEPT ![out.developer] = out.dev_balance],
                           developerBalance)
          ELSE developerBalance
    /\ IF out.err = OK
       THEN /\ userBalance' = [userBalance EXCEPT ![user] = out.user_balance]
            /\ userPolicy' = [userPolicy EXCEPT ![user] = out.policy]
            /\ runs' = [runs EXCEPT ![run_id] = out.record]
            /\ audit' = Audited({user}, {out.developer}, run_id)
       ELSE UNCHANGED <<userBalance, userPolicy, runs, audit>>
    /\ Reply(seen, [Call("finalize_run", out.err) EXCEPT
                    !.caller = runner, !.run_id = run_id,
                    !.args = <<rate_version, usage, output_hash>>,
                    !.receipt = IF out.err = OK
                                THEN [run_id |-> run_id,
                                      actual_charge |-> out.actual_charge,
                                      refund |-> out.refund,
                                      developer |-> out.developer]
                                ELSE NoReceipt])
    /\ UNCHANGED <<now, registryVars, agentRegistry, nextRunId, capSince>>

owns_or_opened_run(record, user) == record.user = user \/ record.opened_by = user
owns_run(record, user) == record.user = user

\* cancel_run up to its first panic
cancel_run(user, run_id) ==
    LET record == runs[run_id]
        new_balance == cancel_refund(userBalance[user], record)
        Fail(e) == [err |-> e, balance |-> 0, policy |-> DefaultPolicy, record |-> <<>>]
    IN
    IF run_id \notin DOMAIN runs THEN Fail("RunNotFound")
    ELSE IF ~owns_run(record, user) THEN Fail("Unauthorized")
    ELSE IF ~is_open(record) THEN Fail("RunNotOpen")
    ELSE IF ~IsSome(new_balance) THEN Fail("InvalidAmount")
    ELSE [err |-> OK,
          balance |-> Unwrap(new_balance),
          policy |-> release_reserved(user, record.max_charge),
          record |-> cancelled_record(record)]

CancelRun(seen, user, run_id) ==
    LET out == cancel_run(user, run_id) IN
    /\ IF out.err = OK
       THEN /\ userBalance' = [userBalance EXCEPT ![user] = out.balance]
            /\ userPolicy' = [userPolicy EXCEPT ![user] = out.policy]
            /\ runs' = [runs EXCEPT ![run_id] = out.record]
            /\ audit' = Audited({user}, {}, run_id)
       ELSE UNCHANGED <<userBalance, userPolicy, runs, audit>>
    /\ Reply(seen, [Call("cancel_run", out.err) EXCEPT !.user = user, !.run_id = run_id])
    /\ UNCHANGED <<now, registryVars, agentRegistry, nextRunId, developerBalance,
                   runnerGrants, capSince>>

(***************************************************************************)
(* The system: any entry point of either contract, or the clock advancing. *)
(* `in` holds the sets the arguments are drawn from and the bounds on the  *)
(* counters.  With in.rejected a rejected call is a step of its own, which *)
(* changes `last` alone; without, a rejected call leaves no trace.         *)
(***************************************************************************)
Step(in) ==
    LET seen == in.rejected
        NextAgent == IF nextAgentId = Absent THEN 1 ELSE nextAgentId
    IN
    \/ now < in.ticks * TimeStep /\ AdvanceTime
    \/ RegistryInit(seen)
    \/ \E d \in Developers, rs \in in.runner_lists, r \in in.rates :
          NextAgent <= in.agents /\ RegisterAgent(seen, d, rs, r)
    \/ \E a \in 1..in.agents, r \in in.runners : AddRunner(seen, a, r)
    \/ \E a \in 1..in.agents, r \in in.runners : RemoveRunner(seen, a, r)
    \/ \E a \in 1..in.agents, r \in in.rates :
          /\ a \in DOMAIN agents => agents[a].latest_rate_version < in.versions
          /\ PublishRateCard(seen, a, r)
    \/ VaultInit(seen, RegistryAddr)
    \/ \E u \in Users, n \in in.amounts : Deposit(seen, u, n)
    \/ \E u \in Users, n \in in.amounts : Withdraw(seen, u, n)
    \/ \E u \in Users, p \in in.policies : SetPolicy(seen, u, p)
    \/ \E d \in Developers, n \in in.amounts : ClaimDeveloper(seen, d, n)
    \/ \E u \in Users, r \in in.runners, a \in 1..in.agents, x \in in.expiries :
          GrantRunner(seen, u, r, a, x)
    \/ \E u \in Users, r \in in.runners, a \in 1..in.agents :
          RevokeRunner(seen, u, r, a)
    \/ \E u \in Users : ListRunnerGrants(seen, u)
    \/ \E u \in Users, r \in in.runners, a \in 1..in.agents :
          IsRunnerAuthorized(seen, u, r, a)
    \/ \E u \in Users, c \in in.callers, a \in 1..in.agents,
          v \in 1..in.versions, b \in in.usages :
          next_run_id <= in.runs /\ OpenRun(seen, u, c, a, v, b)
    \/ \E id \in 1..in.runs, r \in in.runners, v \in 1..in.versions,
          u \in in.usages, h \in in.hashes : FinalizeRun(seen, id, r, v, u, h)
    \/ \E u \in in.callers, id \in 1..in.runs : CancelRun(seen, u, id)

\* run lifecycle and escrow: one delegated runner, one rate card
LifecycleInputs ==
    [rejected |-> FALSE, ticks |-> MaxTicks, agents |-> MaxAgents,
     versions |-> MaxRateVersion, runs |-> MaxRuns,
     runner_lists |-> {<<"bob", "bob">>},
     rates |-> {Vec4(1, 2, 0, 1)},
     runners |-> {"bob"},
     callers |-> {"alice", "bob"},
     amounts |-> {3},
     policies |-> {PolicyInput(0, 0, FALSE)},
     expiries |-> {None},
     usages |-> {Vec4(1, 0, 0, 0), Vec4(2, 0, 0, 0)},
     hashes |-> {"h1"}]

Next == Step(LifecycleInputs)

Spec == Init /\ [][Next]_vars

\* rejected calls: every entry point is also called with arguments it refuses
RejectionInputs ==
    [rejected |-> TRUE, ticks |-> MaxTicks, agents |-> MaxAgents,
     versions |-> MaxRateVersion, runs |-> ErrRuns,
     runner_lists |-> {<<>>, <<"bob", "bob">>},
     rates |-> {Vec4(1, 2, 0, 1), Vec4(-1, 0, 0, 0)},
     runners |-> {"bob", "rita"},
     callers |-> {"alice", "bob"},
     amounts |-> {0, 4},
     policies |-> {PolicyInput(-1, 0, FALSE)},
     expiries |-> {None},
     usages |-> {Vec4(1, 0, 0, 0), Vec4(0, 0, 0, -1)},
     hashes |-> {"h1"}]

NextErr == Step(RejectionInputs)

SpecErr == Init /\ [][NextErr]_vars

\* the spend policy: two daily caps and the daily reservation over two days
PolicyInputs ==
    [rejected |-> FALSE, ticks |-> MaxTicks, agents |-> MaxAgents,
     versions |-> MaxRateVersion, runs |-> CapRuns,
     runner_lists |-> {<<"bob">>},
     rates |-> {Vec4(1, 2, 0, 1)},
     runners |-> {"bob"},
     callers |-> {"alice"},
     amounts |-> {6},
     policies |-> {PolicyInput(0, 2, FALSE), PolicyInput(0, 4, FALSE)},
     expiries |-> {None},
     usages |-> {Vec4(2, 0, 0, 0)},
     hashes |-> {"h1"}]

NextCap == Step(PolicyInputs)

SpecCap == Init /\ [][NextCap]_vars

\* runner grants: a grant that expires on the second day, a runner the
\* registry drops and takes back, every call recorded
GrantInputs ==
    [rejected |-> TRUE, ticks |-> MaxTicks, agents |-> MaxAgents,
     versions |-> MaxRateVersion, runs |-> ErrRuns,
     runner_lists |-> {<<"bob", "rita">>},
     rates |-> {Vec4(1, 2, 0, 1)},
     runners |-> {"bob"},
     callers |-> {"alice", "bob"},
     amounts |-> {3},
     policies |-> {PolicyInput(0, 0, FALSE), PolicyInput(0, 0, TRUE)},
     expiries |-> {None, Some(SecondsPerDay)},
     usages |-> {Vec4(1, 0, 0, 0)},
     hashes |-> {"h1"}]

NextGrant == Step(GrantInputs)

SpecGrant == Init /\ [][NextGrant]_vars

\* grants per (runner, agent) pair: two agents with the same runner
PairInputs ==
    [rejected |-> FALSE, ticks |-> MaxTicks, agents |-> PairAgents,
     versions |-> MaxRateVersion, runs |-> ErrRuns,
     runner_lists |-> {<<"bob">>},
     rates |-> {Vec4(1, 2, 0, 1)},
     runners |-> {"bob"},
     callers |-> {"alice", "bob"},
     amounts |-> {3},
     policies |-> {PolicyInput(0, 0, FALSE)},
     expiries |-> {None, Some(SecondsPerDay)},
     usages |-> {Vec4(1, 0, 0, 0)},
     hashes |-> {"h1"}]

NextPair == Step(PairInputs)

SpecPair == Init /\ [][NextPair]_vars

(***************************************************************************)
(* Properties.                                                             *)
(***************************************************************************)
RunIds == DOMAIN runs
IsOpen(id) == runs[id].lifecycle.tag = "Open"
IsFinalized(id) == runs[id].lifecycle.tag = "Finalized"
IsCancelled(id) == runs[id].lifecycle.tag = "Cancelled"
Settlement(id) == runs[id].lifecycle.settlement
Returned(op) == last.op = op /\ last.err = OK

\* C1: a run that is Finalized or Cancelled is terminal: no step of the system
\* (any vault or registry call, or time passing) changes its record again, that
\* is its lifecycle, its settlement or its escrowed field.
C1_TerminalRunNeverChanges ==
    [][\A id \in RunIds :
          ~IsOpen(id) => id \in DOMAIN runs' /\ runs'[id] = runs[id]]_vars

\* a Finalized and a Cancelled run are stored, and a later call has moved funds
C1_Witness ==
    /\ \E id \in RunIds : IsFinalized(id)
    /\ \E id \in RunIds : IsCancelled(id)
    /\ Returned("withdraw")

\* C2: every stored run that is Open holds escrowed = max_charge, and every run
\* that is Finalized or Cancelled holds escrowed = 0.
C2_EscrowMatchesLifecycle ==
    \A id \in RunIds :
        IF IsOpen(id)
        THEN runs[id].escrowed = runs[id].max_charge
        ELSE runs[id].escrowed = 0

\* an Open run holding funds beside a closed run that was priced above zero
C2_Witness ==
    /\ \E id \in RunIds : IsOpen(id) /\ runs[id].escrowed > 0
    /\ \E id \in RunIds : ~IsOpen(id) /\ runs[id].max_charge > 0

\* C3: the settlement of every Finalized run has 0 <= actual_charge <= max_charge
\* and refund = max_charge - actual_charge >= 0, and the receipt finalize_run
\* returns carries the stored actual_charge and refund.
C3_SettlementArithmetic ==
    /\ \A id \in RunIds :
          IsFinalized(id) =>
             /\ 0 <= Settlement(id).actual_charge
             /\ Settlement(id).actual_charge <= runs[id].max_charge
             /\ Settlement(id).refund = runs[id].max_charge - Settlement(id).actual_charge
             /\ Settlement(id).refund >= 0
             /\ runs[id].max_charge = Settlement(id).actual_charge + Settlement(id).refund
    /\ Returned("finalize_run") =>
          /\ last.receipt.run_id = last.run_id
          /\ last.receipt.actual_charge = Settlement(last.run_id).actual_charge
          /\ last.receipt.refund = Settlement(last.run_id).refund

\* finalize_run has just returned a receipt with a charge and a refund above zero
C3_Witness ==
    /\ Returned("finalize_run")
    /\ last.receipt.actual_charge > 0
    /\ last.receipt.refund > 0

\* the run the last call named was opened by its user with no other call writing
\* that user's balance or a developer balance since
Undisturbed == last.run_id \in RunIds /\ audit[runs[last.run_id].user].run_id = last.run_id
BeforeOpen == audit[runs[last.run_id].user]

\* C4: when a run is opened and then finalized with no other call writing the
\* user's or the developer's balance in between, the user's balance is the one
\* before open_run minus actual_charge and the developer's balance has grown by
\* exactly actual_charge.
C4_OpenThenFinalizeBalances ==
    (Returned("finalize_run") /\ Undisturbed) =>
        LET id == last.run_id
            developer == developer_of(runs[id].agent_id)
        IN
        /\ userBalance[runs[id].user] =
              BeforeOpen.user_before - Settlement(id).actual_charge
        /\ developerBalance[developer] =
              BeforeOpen.dev_before[developer] + Settlement(id).actual_charge

\* such a finalize, with part of the escrow charged and part refunded
C4_Witness ==
    /\ Returned("finalize_run") /\ Undisturbed
    /\ Settlement(last.run_id).actual_charge > 0
    /\ Settlement(last.run_id).refund > 0
    /\ BeforeOpen.user_before > runs[last.run_id].max_charge

\* C5 as the specification words it: after open and finalize the user's balance
\* is the balance before open_run plus the refund (and the developer's has grown
\* by actual_charge).
C5_AsStated ==
    (Returned("finalize_run") /\ Undisturbed) =>
        LET id == last.run_id
            developer == developer_of(runs[id].agent_id)
        IN
        /\ userBalance[runs[id].user] = BeforeOpen.user_before + Settlement(id).refund
        /\ developerBalance[developer] =
              BeforeOpen.dev_before[developer] + Settlement(id).actual_charge

\* C5 amended: the user's balance after finalize is the balance before open_run
\* minus max_charge plus the refund (the balance left by open_run plus the
\* refund); the developer's balance has grown by actual_charge.
C5_EscrowConservation ==
    (Returned("finalize_run") /\ Undisturbed) =>
        LET id == last.run_id
            developer == developer_of(runs[id].agent_id)
        IN
        /\ userBalance[runs[id].user] =
              BeforeOpen.user_before - runs[id].max_charge + Settlement(id).refund
        /\ developerBalance[developer] - Settlement(id).actual_charge =
              BeforeOpen.dev_before[developer]

\* such a finalize of a run priced above zero, with a refund
C5_Witness ==
    /\ Returned("finalize_run") /\ Undisturbed
    /\ runs[last.run_id].max_charge > 0
    /\ Settlement(last.run_id).refund > 0

\* C6: when a run is opened and then cancelled with no other call writing the
\* user's balance in between, the user's balance is exactly the one before
\* open_run, no developer balance has changed, and the run is Cancelled.
C6_CancelConservation ==
    (Returned("cancel_run") /\ Undisturbed) =>
        /\ userBalance[last.user] = BeforeOpen.user_before
        /\ developerBalance = BeforeOpen.dev_before
        /\ IsCancelled(last.run_id)
        /\ runs[last.run_id].user = last.user

\* such a cancel of a run that held funds
C6_Witness ==
    /\ Returned("cancel_run") /\ Undisturbed
    /\ runs[last.run_id].max_charge > 0

\* a finalize_run or cancel_run call is being made on the id of a stored run that
\* is Finalized or Cancelled (rejected calls are steps of SpecErr)
TerminalCall ==
    /\ last'.op \in {"finalize_run", "cancel_run"}
    /\ last'.run_id \in RunIds
    /\ ~IsOpen(last'.run_id)
StorageUnchanged == UNCHANGED <<now, registryVars, vaultVars>>

\* C7 as the specification words it: every finalize_run and every cancel_run on
\* the id of a Finalized or Cancelled run fails with run-not-open, whatever its
\* other arguments, and no state mutates.
C7_AsStated ==
    [][TerminalCall => last'.err = "RunNotOpen" /\ StorageUnchanged]_vars

\* C7 amended: every finalize_run and every cancel_run on the id of a Finalized
\* or Cancelled run fails and no state mutates; finalize_run fails with
\* run-not-open when its usage is non-negative and with invalid-amount when it is
\* not, cancel_run fails with run-not-open when called by the run's user and
\* with unauthorized when called by anyone else.
C7_TerminalCallsFail ==
    [][TerminalCall =>
          /\ StorageUnchanged
          /\ last'.op = "finalize_run" =>
                last'.err = IF validate_non_negative_usage(last'.args[2])
                            THEN "RunNotOpen" ELSE "InvalidAmount"
          /\ last'.op = "cancel_run" =>
                last'.err = IF last'.user = runs[last'.run_id].user
                            THEN "RunNotOpen" ELSE "Unauthorized"]_vars

\* finalize_run was refused on a Cancelled run for the run not being open
C7_Witness ==
    /\ last.op = "finalize_run" /\ last.err = "RunNotOpen"
    /\ last.run_id \in RunIds /\ IsCancelled(last.run_id)
    /\ validate_non_negative_usage(last.args[2])

OpenRunsOf(user) == {id \in RunIds : runs[id].user = user /\ IsOpen(id)}
OpenedToday(id) == runs[id].opened_at \div SecondsPerDay = current_day
\* the policy value valid for the current day
ReservedToday(user) ==
    IF userPolicy[user].reserved_day = current_day
    THEN userPolicy[user].reserved_today ELSE 0

RECURSIVE SumEscrowed(_)
SumEscrowed(ids) ==
    IF ids = {} THEN 0
    ELSE LET id == CHOOSE i \in ids : TRUE IN
         runs[id].escrowed + SumEscrowed(ids \ {id})

C9_DailyCapCeiling ==
    \A u \in Users :
        capSince[u] > 0 =>
            SumEscrowed({id \in OpenRunsOf(u) : OpenedToday(id)}) <= capSince[u]

\* budgets priced at 2, 3 and 5 by the rate card of the policy scope
RolloverBudgets == {Vec4(2, 0, 0, 0), Vec4(1, 1, 0, 0), Vec4(1, 2, 0, 0)}

\* C10: when a user with daily_cap > 0 holds a reservation made on an earlier
\* day, open_run measures the new run's max_charge alone against daily_cap (it
\* refuses for the daily cap only a max_charge above daily_cap, and passes the
\* cap check only with a max_charge within it), and a successful open_run stores
\* reserved_day = the current day and reserved_today = the new run's max_charge,
\* whether or not the earlier day's runs are still Open.
C10_DailyCapRollover ==
    [][\A u \in Users :
          LET policy == userPolicy[u] IN
          (policy.daily_cap > 0 /\ policy.reserved_today > 0
             /\ policy.reserved_day # current_day) =>
             /\ \A a \in 1..MaxAgents, v \in 1..MaxRateVersion, b \in RolloverBudgets :
                   HasRateCard(a, v) =>
                      LET out == open_run(u, u, a, v, b)
                          max_charge == Unwrap(compute_charge(get_rate_card(a, v), b))
                      IN /\ out.err = "DailyCapExceeded" => max_charge > policy.daily_cap
                         /\ out.err \in {OK, "InsufficientBalance"} =>
                               max_charge <= policy.daily_cap
             /\ (/\ last'.op = "open_run" /\ last'.err = OK /\ last'.user = u
                 /\ last'.run_id \notin RunIds) =>
                   /\ userPolicy'[u].reserved_day = current_day
                   /\ userPolicy'[u].reserved_today = runs'[last'.run_id].max_charge
                   /\ userPolicy'[u].reserved_today <= policy.daily_cap]_vars

\* open_run has just returned on the second day while the run that reserved on
\* the first day is still Open, and the reservation is the new run's price alone
C10_Witness ==
    /\ Returned("open_run") /\ last.run_id = 2
    /\ capSince[last.user] > 0
    /\ IsOpen(1) /\ runs[1].user = last.user /\ ~OpenedToday(1)
    /\ runs[1].max_charge > 0
    /\ OpenedToday(2)
    /\ userPolicy[last.user].reserved_today = runs[2].max_charge

\* a stored grant whose expiry has been reached
Expired(grant) == IsSome(grant.expires_at) /\ Unwrap(grant.expires_at) <= now
\* the user's stored list holds an unexpired grant for exactly (runner, agent_id)
LiveGrant(user, runner, agent_id) ==
    \E i \in 1..Len(read_runner_grants(user)) :
        LET grant == read_runner_grants(user)[i] IN
        grant.runner = runner /\ grant.agent_id = agent_id /\ ~Expired(grant)
\* the registry lists the runner for the agent
Registered(agent_id, runner) ==
    agent_id \in DOMAIN agents /\ contains_address(agents[agent_id].runners, runner)
Authorized(user, runner, agent_id) ==
    LiveGrant(user, runner, agent_id) /\ Registered(agent_id, runner)

RateInputs ==
    [rejected |-> TRUE, ticks |-> MaxTicks, agents |-> MaxAgents,
     versions |-> RateVersions, runs |-> ErrRuns,
     runner_lists |-> {<<"bob">>},
     rates |-> {Vec4(1, 0, 0, 0), Vec4(2, 0, 0, 1)},
     runners |-> {"bob"},
     callers |-> {"alice"},
     amounts |-> {MaxI128},
     policies |-> {PolicyInput(0, 0, FALSE)},
     expiries |-> {None},
     usages |-> {Vec4(1, 0, 0, 0), Vec4(1, 1, 0, 0), Vec4(0, 0, 0, -1)},
     hashes |-> {"h1"}]

NextRate == Step(RateInputs)

SpecRate == Init /\ [][NextRate]_vars

\* one run under a per-run cap, a pause flag, or neither
RunCapInputs ==
    [rejected |-> TRUE, ticks |-> MaxTicks, agents |-> MaxAgents,
     versions |-> MaxRateVersion, runs |-> ErrRuns,
     runner_lists |-> {<<"bob">>},
     rates |-> {Vec4(1, 0, 0, 0)},
     runners |-> {"bob"},
     callers |-> {"alice"},
     amounts |-> {MaxI128},
     policies |-> {PolicyInput(0, 0, FALSE), PolicyInput(1, 0, FALSE),
                   PolicyInput(1, 0, TRUE), PolicyInput(0, 1, FALSE)},
     expiries |-> {None},
     usages |-> {Vec4(1, 0, 0, 0), Vec4(2, 0, 0, 0)},
     hashes |-> {"h1"}]

NextRunCap == Step(RunCapInputs)

SpecRunCap == Init /\ [][NextRunCap]_vars

\* one run, opened by the user or by a delegated runner, while the user deposits
\* up to the largest balance, pauses or caps the policy, and the registry drops
\* the runner
ExitInputs ==
    [rejected |-> TRUE, ticks |-> MaxTicks, agents |-> MaxAgents,
     versions |-> MaxRateVersion, runs |-> ErrRuns,
     runner_lists |-> {<<"bob", "rita">>},
     rates |-> {Vec4(1, 0, 0, 0)},
     runners |-> {"bob"},
     callers |-> {"alice", "bob"},
     amounts |-> {1, MaxI128},
     policies |-> {PolicyInput(1, 1, TRUE)},
     expiries |-> {None},
     usages |-> {Vec4(1, 0, 0, 0)},
     hashes |-> {"h1"}]

NextExit == Step(ExitInputs)

SpecExit == Init /\ [][NextExit]_vars

\* a call of open_run has just returned the id of a run it created
Opened == last'.op = "open_run" /\ last'.err = OK /\ last'.run_id \notin RunIds

\* C12: open_run creates a run only if caller = user, or caller holds an
\* unexpired grant from user for exactly that agent_id and the registry lists
\* caller for that agent; the run stores that user and opened_by = caller.  Any
\* other open_run is refused with unauthorized-runner before the policy, the
\* balance or the run counter is written.
C12_OpenRunAuthorization ==
    [][/\ Opened =>
             /\ \/ last'.caller = last'.user
                \/ Authorized(last'.user, last'.caller, last'.args[1])
             /\ runs'[last'.run_id].user = last'.user
             /\ runs'[last'.run_id].opened_by = last'.caller
             /\ runs'[last'.run_id].agent_id = last'.args[1]
       /\ \A u \in Users, c \in PairInputs.callers, a \in 1..PairAgents,
             v \in 1..MaxRateVersion, b \in PairInputs.usages :
             (c # u /\ ~Authorized(u, c, a)) =>
                LET out == open_run(u, c, a, v, b) IN
                /\ out.err = "UnauthorizedRunner"
                /\ out.writes \cap {"policy", "balance", "run"} = {}]_vars

\* a delegated caller has just opened a run for the agent it holds a grant for,
\* while it holds none for another agent the registry lists it for
C12_Witness ==
    /\ Returned("open_run")
    /\ last.caller # last.user
    /\ runs[last.run_id].opened_by = last.caller
    /\ \E a \in 1..PairAgents :
          /\ a # runs[last.run_id].agent_id
          /\ Registered(a, last.caller)
          /\ ~LiveGrant(last.user, last.caller, a)

\* C13: cancel_run(u, run_id) with u other than the run's stored user is refused
\* with unauthorized and changes nothing, also when u opened the run, holds an
\* unexpired grant from the user and is a registry runner of the agent; a
\* cancel_run that returns was called by the run's user and leaves every
\* developer balance as it was.
C13_OnlyUserCancels ==
    [][(last'.op = "cancel_run" /\ last'.run_id \in RunIds) =>
          /\ last'.user # runs[last'.run_id].user =>
                last'.err = "Unauthorized" /\ StorageUnchanged
          /\ last'.err = OK =>
                /\ last'.user = runs[last'.run_id].user
                /\ developerBalance' = developerBalance]_vars

\* cancel_run was refused to the delegated runner who opened the Open run and
\* is still authorized for it
C13_Witness ==
    /\ last.op = "cancel_run" /\ last.err = "Unauthorized"
    /\ last.run_id \in RunIds /\ IsOpen(last.run_id)
    /\ runs[last.run_id].opened_by = last.user
    /\ Authorized(runs[last.run_id].user, last.user, runs[last.run_id].agent_id)

\* the grant list stored for the user after the step
StoredGrantsAfter(user) ==
    IF IsSome(runnerGrants'[user]) THEN Unwrap(runnerGrants'[user]) ELSE <<>>
\* the user whose grant list the call that has just returned went through
GrantListUser ==
    IF last'.op = "finalize_run" THEN runs[last'.run_id].user ELSE last'.user
TouchesGrants ==
    /\ last'.err = OK
    /\ \/ last'.op \in {"grant_runner", "revoke_runner", "list_runner_grants",
                        "is_runner_authorized", "finalize_run"}
       \/ last'.op = "open_run" /\ last'.caller # last'.user

\* C14: at any ledger time, a grant with expires_at <= now (also one created
\* with expires_at already <= now) never makes the authorization check return
\* true, in is_runner_authorized, in a delegated open_run or in finalize_run;
\* and every call that returns after going through a user's grant list leaves no
\* expired grant in the stored list (grant_runner aside from the grant it adds).
C14_GrantExpiry ==
    [][/\ \A u \in Users, r \in GrantInputs.callers, a \in 1..MaxAgents :
             LET auth == ensure_runner_authorized(u, r, a) IN
             (auth.err = OK /\ auth.result) => LiveGrant(u, r, a)
       /\ (last'.op = "is_runner_authorized" /\ last'.err = OK /\ last'.ret = TRUE) =>
             LiveGrant(last'.user, last'.caller, last'.args[1])
       /\ (Opened /\ last'.caller # last'.user) =>
             LiveGrant(last'.user, last'.caller, last'.args[1])
       /\ (last'.op = "finalize_run" /\ last'.err = OK /\ last'.run_id \in RunIds
             /\ IsOpen(last'.run_id)) =>
             LiveGrant(runs[last'.run_id].user, last'.caller,
                       runs[last'.run_id].agent_id)
       /\ TouchesGrants =>
             LET stored == StoredGrantsAfter(GrantListUser)
                 kept == IF last'.op = "grant_runner"
                         THEN SubSeq(stored, 1, Len(stored) - 1) ELSE stored
             IN \A i \in 1..Len(kept) : ~Expired(kept[i])]_vars

\* a delegated open_run was refused although the caller's grant for the agent is
\* still stored and the registry lists the caller: the grant has expired
C14_Witness ==
    /\ last.op = "open_run" /\ last.err = "UnauthorizedRunner"
    /\ Registered(last.args[1], last.caller)
    /\ \E i \in 1..Len(read_runner_grants(last.user)) :
          LET grant == read_runner_grants(last.user)[i] IN
          /\ grant.runner = last.caller /\ grant.agent_id = last.args[1]
          /\ Expired(grant)

\* the user's stored list holds a grant for (runner, agent_id), expired or not
StoresGrant(stored, runner, agent_id) ==
    \E i \in 1..Len(stored) :
        stored[i].runner = runner /\ stored[i].agent_id = agent_id

\* C15: is_runner_authorized(user, runner, agent_id) returns true exactly when
\* the user's stored list holds an unexpired grant for (runner, agent_id) and the
\* registry lists the runner for the agent; when the grant is there but the
\* registry does not list the runner it returns false and leaves no grant for
\* the pair in the stored list, and only a grant_runner that returns stores a
\* grant for the pair again.
C15_IsRunnerAuthorized ==
    [][/\ \A u \in Users, r \in GrantInputs.callers, a \in 1..MaxAgents :
             LET auth == ensure_runner_authorized(u, r, a) IN
             /\ auth.err = OK
             /\ auth.result <=> Authorized(u, r, a)
             /\ (~StoresGrant(read_runner_grants(u), r, a)
                   /\ StoresGrant(StoredGrantsAfter(u), r, a)) =>
                   /\ last'.op = "grant_runner" /\ last'.err = OK
                   /\ last'.user = u /\ last'.caller = r /\ last'.args[1] = a
       /\ last'.op = "is_runner_authorized" =>
             LET u == last'.user
                 r == last'.caller
                 a == last'.args[1]
             IN
             /\ last'.err = OK
             /\ last'.ret <=> Authorized(u, r, a)
             /\ (LiveGrant(u, r, a) /\ ~Registered(a, r)) =>
                   /\ last'.ret = FALSE
                   /\ ~StoresGrant(StoredGrantsAfter(u), r, a)]_vars

\* is_runner_authorized has returned false for the runner who opened the run
\* still Open, whom the registry has dropped, and no grant for the pair is left
C15_Witness ==
    /\ last.op = "is_runner_authorized" /\ last.err = OK /\ last.ret = FALSE
    /\ ~Registered(last.args[1], last.caller)
    /\ ~StoresGrant(read_runner_grants(last.user), last.caller, last.args[1])
    /\ \E id \in RunIds :
          /\ IsOpen(id) /\ runs[id].user = last.user
          /\ runs[id].opened_by = last.caller /\ runs[id].agent_id = last.args[1]

\* no two entries of a user's stored list are for the same (runner, agent_id)
OneGrantPerPair ==
    \A u \in Users :
        LET stored == read_runner_grants(u) IN
        \A i, j \in 1..Len(stored) :
            (stored[i].runner = stored[j].runner
               /\ stored[i].agent_id = stored[j].agent_id) => i = j

\* C16 as stated: at most one grant per pair, and grant_runner fails with
\* RunnerGrantExists whenever an unexpired grant for the pair is stored and is
\* accepted whenever the only stored grant for the pair has expired.
C16_AsStated ==
    /\ OneGrantPerPair
    /\ \A u \in Users, r \in GrantInputs.runners, a \in 1..MaxAgents :
          /\ LiveGrant(u, r, a) => GrantRunnerErr(u, r, a) = "RunnerGrantExists"
          /\ (StoresGrant(read_runner_grants(u), r, a) /\ ~LiveGrant(u, r, a)) =>
                GrantRunnerErr(u, r, a) = OK

\* C16: each user's stored list holds at most one grant per (runner, agent_id);
\* grant_runner for a pair with an unexpired stored grant always fails, with
\* RunnerGrantExists when the registry lists the runner for the agent and with
\* UnauthorizedRunner when it does not; when the only stored grant for the pair
\* has expired and the registry lists the runner, grant_runner is accepted, and
\* the list then holds the new grant as its one entry for the pair.
C16_GrantUniqueness ==
    [][/\ OneGrantPerPair /\ OneGrantPerPair'
       /\ \A u \in Users, r \in GrantInputs.runners, a \in 1..MaxAgents :
             /\ LiveGrant(u, r, a) =>
                   GrantRunnerErr(u, r, a) =
                      IF Registered(a, r) THEN "RunnerGrantExists"
                      ELSE "UnauthorizedRunner"
             /\ (StoresGrant(read_runner_grants(u), r, a) /\ ~LiveGrant(u, r, a)
                   /\ r # u /\ Registered(a, r)) =>
                   GrantRunnerErr(u, r, a) = OK
       /\ (last'.op = "grant_runner" /\ last'.err = OK) =>
             LET stored == StoredGrantsAfter(last'.user) IN
             /\ ~LiveGrant(last'.user, last'.caller, last'.args[1])
             /\ \E i \in 1..Len(stored) :
                   stored[i] = [runner |-> last'.caller, agent_id |-> last'.args[1],
                                issued_at |-> now, expires_at |-> last'.args[2]]]_vars

\* grant_runner has returned for a pair whose earlier grant, under which the
\* runner opened the run still recorded, had expired
C16_Witness ==
    /\ last.op = "grant_runner" /\ last.err = OK
    /\ \E id \in RunIds :
          /\ runs[id].user = last.user /\ runs[id].opened_by = last.caller
          /\ runs[id].agent_id = last.args[1]
          /\ runs[id].opened_at < now
    /\ \E i \in 1..Len(read_runner_grants(last.user)) :
          LET g == read_runner_grants(last.user)[i] IN
          g.runner = last.caller /\ g.agent_id = last.args[1] /\ g.issued_at = now

VaultCalls ==
    {"init", "deposit", "withdraw", "set_policy", "grant_runner", "revoke_runner",
     "open_run", "finalize_run", "cancel_run", "claim_developer"}

\* C17: a vault call (init, deposit, withdraw, set_policy, grant_runner,
\* revoke_runner, open_run, finalize_run, cancel_run, claim_developer) that ends
\* with an error leaves the registry address, the run counter, every user and
\* developer balance, every policy (reserved_today and reserved_day included),
\* every grant list and every run record as they were before the call.
C17_AllOrNothing ==
    [][(last'.op \in VaultCalls /\ last'.err # OK) =>
          /\ agentRegistry' = agentRegistry
          /\ nextRunId' = nextRunId
          /\ userBalance' = userBalance
          /\ developerBalance' = developerBalance
          /\ userPolicy' = userPolicy
          /\ runnerGrants' = runnerGrants
          /\ runs' = runs]_vars

\* open_run has failed on the balance check, after it had written a policy moved
\* to the current day, and the stored policy is still that of the earlier day
C17_Witness ==
    /\ last.op = "open_run" /\ last.err = "InsufficientBalance"
    /\ userPolicy[last.user].reserved_day # current_day

\* C18: the first open_run that returns after init returns 1 and each later one
\* returns one more than the one before; a run record exists for id k exactly
\* when 1 <= k < the stored counter; the counter changes only when init sets it
\* to 1 on an uninitialized vault and when an open_run returns, so a rejected
\* open_run consumes no id and no record is ever replaced under a new opening;
\* init on an initialized vault fails with AlreadyInitialized.
C18_SequentialRunIds ==
    [][/\ RunIds = (IF nextRunId = Absent THEN {} ELSE 1..(nextRunId - 1))
       /\ RunIds' = (IF nextRunId' = Absent THEN {} ELSE 1..(nextRunId' - 1))
       /\ agentRegistry # NoAddr =>
             /\ VaultInitErr = "AlreadyInitialized"
             /\ nextRunId # Absent /\ nextRunId' >= nextRunId
       /\ (last'.op = "open_run" /\ last'.err = OK
             /\ <<last, runs, userBalance>> # <<last', runs', userBalance'>>) =>
             /\ last'.ret = Cardinality(RunIds) + 1
             /\ last'.ret \notin RunIds
             /\ RunIds' = RunIds \cup {last'.ret}
             /\ nextRunId' = last'.ret + 1
       /\ nextRunId' # nextRunId =>
             \/ /\ last'.op = "init" /\ last'.err = OK
                /\ agentRegistry = NoAddr /\ nextRunId = Absent /\ nextRunId' = 1
                /\ runs' = runs
             \/ /\ last'.op = "open_run" /\ last'.err = OK
                /\ nextRunId' = nextRunId + 1
       /\ RunIds' # RunIds => nextRunId' # nextRunId]_vars

\* the second open_run has returned 2 after run 1 was closed
C18_Witness ==
    /\ last.op = "open_run" /\ last.err = OK /\ last.ret = 2
    /\ RunIds = {1, 2} /\ ~IsOpen(1) /\ IsOpen(2)
    /\ nextRunId = 3

\* what finalize_run and cancel_run compute, the pause flag of the policy they
\* write set aside
PauseAside(out) == [out EXCEPT !.policy = [@ EXCEPT !.paused = FALSE]]

\* set_policy has changed the pause flag of `user` and nothing else
PauseFlipped(user) ==
    /\ last'.op = "set_policy" /\ last'.err = OK /\ last'.user = user
    /\ userPolicy'[user].paused # userPolicy[user].paused
    /\ userPolicy' = [userPolicy EXCEPT ![user] =
                         [@ EXCEPT !.paused = userPolicy'[user].paused]]

\* C19: while a user's policy is paused no open_run for that user returns,
\* whoever calls it; finalize_run and cancel_run do not look at the flag: across
\* a set_policy that changes only the flag, every finalize_run and cancel_run
\* call has the same outcome before and after (the same error, or the same
\* balances, record and reservation written), and a finalize_run or cancel_run
\* that returns leaves the flag as it was.
C19_PauseBlocksOpeningOnly ==
    [][/\ \A u \in Users :
             userPolicy[u].paused =>
                \A c \in GrantInputs.callers, a \in 1..MaxAgents,
                   v \in 1..MaxRateVersion, b \in GrantInputs.usages :
                   open_run(u, c, a, v, b).err # OK
       /\ (last'.op = "open_run" /\ last'.err = OK
             /\ <<last, runs, userBalance>> # <<last', runs', userBalance'>>) =>
             ~userPolicy[last'.user].paused
       /\ \A u \in Users :
             PauseFlipped(u) =>
                /\ \A id \in RunIds, r \in GrantInputs.runners,
                      v \in 1..MaxRateVersion, b \in GrantInputs.usages,
                      h \in GrantInputs.hashes :
                      PauseAside(finalize_run(id, r, v, b, h)) =
                         PauseAside(finalize_run(id, r, v, b, h))'
                /\ \A c \in GrantInputs.callers, id \in RunIds :
                      PauseAside(cancel_run(c, id)) = PauseAside(cancel_run(c, id))'
       /\ (last'.op \in {"finalize_run", "cancel_run"} /\ last'.err = OK
             /\ runs' # runs) =>
             LET u == runs[last'.run_id].user IN
             /\ runs[last'.run_id].lifecycle = OpenTag
             /\ runs'[last'.run_id].lifecycle # OpenTag
             /\ userPolicy'[u].paused = userPolicy[u].paused
             /\ userPolicy'[u] = release_reserved(u, runs[last'.run_id].max_charge)]_vars

\* finalize_run has returned on a run of a user whose policy is paused
C19_Witness ==
    /\ last.op = "finalize_run" /\ last.err = OK
    /\ IsFinalized(last.run_id)
    /\ userPolicy[runs[last.run_id].user].paused
    /\ developerBalance[last.receipt.developer] > 0

NonNegativeBalances ==
    \A a \in Addr : userBalance[a] >= 0 /\ developerBalance[a] >= 0

\* the amounts a caller may pass to deposit, withdraw and claim_developer
Amounts == MinI128..MaxI128

\* deposit, withdraw and claim_developer fail with InvalidAmount on an amount
\* <= 0, withdraw and claim_developer with InsufficientBalance on an amount above
\* the caller's balance
AmountChecks ==
    \A a \in Addr, n \in Amounts :
        /\ n <= 0 =>
              /\ DepositErr(a, n) = "InvalidAmount"
              /\ WithdrawErr(a, n) = "InvalidAmount"
              /\ ClaimDeveloperErr(a, n) = "InvalidAmount"
        /\ n > userBalance[a] => WithdrawErr(a, n) = "InsufficientBalance"
        /\ n > developerBalance[a] => ClaimDeveloperErr(a, n) = "InsufficientBalance"

\* open_run is called on an initialized vault by the user or by a runner it has
\* authorized, for a rate card that exists, and the price of its budgets is above
\* the user's balance
Unaffordable(user, caller, agent_id, rate_version, budgets) ==
    /\ agentRegistry # NoAddr
    /\ caller = user \/ Authorized(user, caller, agent_id)
    /\ validate_non_negative_usage(budgets)
    /\ HasRateCard(agent_id, rate_version)
    /\ IsSome(compute_charge(get_rate_card(agent_id, rate_version), budgets))
    /\ Unwrap(compute_charge(get_rate_card(agent_id, rate_version), budgets))
          > userBalance[user]

\* C20 as stated: no balance is negative, the amount checks hold, and open_run
\* fails with InsufficientBalance whenever max_charge exceeds the user's balance.
C20_AsStated ==
    /\ NonNegativeBalances
    /\ AmountChecks
    /\ \A u \in Users, c \in GrantInputs.callers, a \in 1..MaxAgents,
          v \in 1..MaxRateVersion, b \in GrantInputs.usages :
          Unaffordable(u, c, a, v, b) =>
             open_run(u, c, a, v, b).err = "InsufficientBalance"

\* C20: every user balance and developer balance is >= 0 in every reachable
\* state; deposit, withdraw and claim_developer fail with InvalidAmount when
\* amount <= 0, withdraw and claim_developer with InsufficientBalance when amount
\* exceeds the caller's balance; an open_run whose max_charge exceeds the user's
\* balance always fails and debits nothing, with PolicyPaused when the user's
\* policy is paused and with InsufficientBalance when it is not paused and sets
\* no cap; an open_run that returns had max_charge <= balance.
C20_BalancesNeverNegative ==
    [][/\ NonNegativeBalances /\ NonNegativeBalances'
       /\ AmountChecks
       /\ \A u \in Users, c \in GrantInputs.callers, a \in 1..MaxAgents,
             v \in 1..MaxRateVersion, b \in GrantInputs.usages :
             Unaffordable(u, c, a, v, b) =>
                LET err == open_run(u, c, a, v, b).err IN
                /\ err # OK
                /\ userPolicy[u].paused => err = "PolicyPaused"
                /\ (~userPolicy[u].paused /\ userPolicy[u].per_run_cap = 0
                      /\ userPolicy[u].daily_cap = 0) => err = "InsufficientBalance"
       /\ last'.op = "open_run" =>
             /\ last'.err = OK =>
                   /\ userBalance'[last'.user] >= 0
                   /\ userBalance'[last'.user] <= userBalance[last'.user]
             /\ last'.err # OK => userBalance' = userBalance
             /\ last'.err = "InsufficientBalance" =>
                   Unaffordable(last'.user, last'.caller, last'.args[1],
                                last'.args[2], last'.args[3])
       /\ (last'.op \in {"withdraw", "claim_developer"}
             /\ last'.err = "InsufficientBalance") =>
             /\ userBalance' = userBalance /\ developerBalance' = developerBalance
             /\ last'.args[1] > (IF last'.op = "withdraw"
                                 THEN userBalance[last'.user]
                                 ELSE developerBalance[last'.user])]_vars

\* open_run by a runner the user has authorized has failed on the balance check
C20_Witness ==
    /\ last.op = "open_run" /\ last.err = "InsufficientBalance"
    /\ last.caller # last.user
    /\ Authorized(last.user, last.caller, last.args[1])
    /\ userBalance[last.user] = 0

(***************************************************************************)
(* Pricing: one agent whose rate card is any vector of the box, a funded   *)
(* user who opens a run with any budgets of the box.                       *)
(***************************************************************************)
ChargeVectors ==
    {Vec4(a, b, c, d) : a \in 0..MaxUnit, b \in 0..MaxUnit, c \in 0..MaxUnit,
                        d \in 0..MaxUnit}

\* the storage after registry init, register_agent(dev, <<bob>>, rates), init and
\* deposit(alice, MaxI128)
InitCharge ==
    /\ now = 0
    /\ nextAgentId = 2
    /\ \E rates \in ChargeVectors :
          /\ agents = (1 :> [developer |-> "dev", runners |-> <<"bob">>,
                             latest_rate_version |-> 1])
          /\ rateCards = (<<1, 1>> :> rates)
    /\ agentRegistry = RegistryAddr
    /\ nextRunId = 1
    /\ userBalance = [a \in Addr |-> IF a = "alice" THEN MaxI128 ELSE 0]
    /\ developerBalance = [a \in Addr |-> 0]
    /\ userPolicy = [a \in Addr |-> DefaultPolicy]
    /\ runnerGrants = [a \in Addr |-> None]
    /\ runs = <<>>
    /\ last = [Call("deposit", OK) EXCEPT !.user = "alice", !.args = <<MaxI128>>]
    /\ audit = [u \in Users |-> NoAudit]
    /\ capSince = [u \in Users |-> Absent]

\* one open_run call is made, rejected or not
NextCharge ==
    \E budgets \in ChargeVectors :
        last.op # "open_run" /\ OpenRun(TRUE, "alice", "alice", 1, 1, budgets)

SpecCharge == InitCharge /\ [][NextCharge]_vars

\* the sum of rate times usage over the four dimensions, in the integers
TrueCharge(rates, usage) ==
    rates.llm_in * usage.llm_in + rates.llm_out * usage.llm_out
       + rates.http_calls * usage.http_calls + rates.runtime_ms * usage.runtime_ms

\* C21: for non-negative rates R and non-negative usage U, compute_charge(R, U)
\* returns the sum of R[i] * U[i] over the four dimensions when the sum fits the
\* integer width, and returns None exactly when the sum exceeds the largest
\* representable amount; open_run fails with InvalidAmount exactly on None, and
\* a run it opens escrows that sum.
C21_ChargeLinearity ==
    [][last'.op = "open_run" =>
          LET rates == get_rate_card(last'.args[1], last'.args[2])
              usage == last'.args[3]
              sum == TrueCharge(rates, usage)
          IN
          /\ sum <= MaxI128 => compute_charge(rates, usage) = Some(sum)
          /\ compute_charge(rates, usage) = None <=> sum > MaxI128
          /\ last'.err = "InvalidAmount" <=> sum > MaxI128
          /\ last'.err = OK =>
                /\ runs'[last'.ret].max_charge = sum
                /\ userBalance'[last'.user] = userBalance[last'.user] - sum]_vars

\* open_run has failed on a price whose every product fits and whose sum does not
C21_Witness ==
    /\ last.op = "open_run" /\ last.err = "InvalidAmount"
    /\ LET rates == get_rate_card(last.args[1], last.args[2])
           usage == last.args[3]
       IN
       /\ rates.llm_in * usage.llm_in <= MaxI128
       /\ rates.llm_out * usage.llm_out <= MaxI128
       /\ rates.http_calls * usage.http_calls <= MaxI128
       /\ rates.runtime_ms * usage.runtime_ms <= MaxI128
       /\ TrueCharge(rates, usage) > MaxI128

\* every registered agent has at least one runner and lists no runner twice
RunnerListsWellFormed ==
    \A a \in DOMAIN agents :
        /\ Len(agents[a].runners) > 0
        /\ \A i, j \in 1..Len(agents[a].runners) :
              agents[a].runners[i] = agents[a].runners[j] => i = j

\* C22: every registered agent has a non-empty runner list without duplicates
\* in every reachable state; register_agent with an empty runner list, and
\* remove_runner of the one runner an agent has left, fail with
\* InvalidRunnerList and leave the registry's records as they were.
C22_RunnerListNeverEmpty ==
    [][/\ RunnerListsWellFormed /\ RunnerListsWellFormed'
       /\ (last'.op = "register_agent" /\ last'.args[1] = <<>>) =>
             /\ last'.err = "InvalidRunnerList"
             /\ UNCHANGED registryVars
       /\ (last'.op = "remove_runner" /\ last'.args[1] \in DOMAIN agents
             /\ agents[last'.args[1]].runners = <<last'.caller>>) =>
             /\ last'.err = "InvalidRunnerList"
             /\ UNCHANGED registryVars]_vars

\* remove_runner was refused for the runner added later, the one the agent has
\* left after the runner it was registered with was removed
C22_Witness ==
    /\ last.op = "remove_runner" /\ last.err = "InvalidRunnerList"
    /\ last.caller = "rita"
    /\ agents[last.args[1]].runners = <<"rita">>

\* every Finalized run records the charge that the rate card of the version
\* recorded at open gives for the usage it records
PricedAtOpenVersion ==
    \A id \in RunIds :
        IsFinalized(id) =>
           runs[id].lifecycle.settlement.actual_charge =
              TrueCharge(get_rate_card(runs[id].agent_id, runs[id].rate_version),
                         runs[id].lifecycle.settlement.usage)

\* C23: finalize_run on an Open run with a rate_version other than the one the
\* run recorded at open fails with InvalidRateVersion (for usage that passes the
\* sign check) and changes nothing, also when the registry has published that
\* other version; a finalize_run that returns named the recorded version, and
\* every Finalized run is priced with the rate card of the recorded version.
C23_NoImplicitRateUpgrade ==
    [][/\ PricedAtOpenVersion /\ PricedAtOpenVersion'
       /\ (last'.op = "finalize_run" /\ last'.run_id \in RunIds
             /\ IsOpen(last'.run_id)) =>
             LET run == runs[last'.run_id]
                 rate_version == last'.args[1]
                 usage == last'.args[2]
             IN
             /\ rate_version # run.rate_version =>
                   /\ last'.err # OK
                   /\ StorageUnchanged
                   /\ validate_non_negative_usage(usage) =>
                         last'.err = "InvalidRateVersion"
             /\ last'.err = OK =>
                   /\ rate_version = run.rate_version
                   /\ last'.receipt.actual_charge =
                         TrueCharge(get_rate_card(run.agent_id, run.rate_version), usage)]_vars

\* finalize_run was refused on an Open run opened under version 1, for version 2,
\* which the registry has published with other rates
C23_Witness ==
    /\ last.op = "finalize_run" /\ last.err = "InvalidRateVersion"
    /\ last.run_id \in RunIds /\ IsOpen(last.run_id)
    /\ runs[last.run_id].rate_version = 1 /\ last.args[1] = 2
    /\ HasRateCard(runs[last.run_id].agent_id, 2)
    /\ get_rate_card(runs[last.run_id].agent_id, 2)
          # get_rate_card(runs[last.run_id].agent_id, 1)

\* usage is above the budgets in at least one of the four dimensions
Overage(usage, budgets) ==
    \/ usage.llm_in > budgets.llm_in
    \/ usage.llm_out > budgets.llm_out
    \/ usage.http_calls > budgets.http_calls
    \/ usage.runtime_ms > budgets.runtime_ms

\* every Finalized run records usage that is non-negative and within its budgets
UsageWithinBudgets ==
    \A id \in RunIds :
        IsFinalized(id) =>
           LET usage == runs[id].lifecycle.settlement.usage IN
           /\ usage.llm_in >= 0 /\ usage.llm_out >= 0
           /\ usage.http_calls >= 0 /\ usage.runtime_ms >= 0
           /\ ~Overage(usage, runs[id].budgets)

\* C24: finalize_run on an Open run with usage above the run's budgets in at
\* least one dimension fails, with UsageExceedsBudget when the usage is
\* non-negative and the rate_version is the recorded one, and leaves the run
\* Open with its escrow and the storage as it was; the usage is never clamped:
\* every Finalized run records the usage it was called with, non-negative and
\* componentwise within its budgets.
C24_OverageRejected ==
    [][/\ UsageWithinBudgets /\ UsageWithinBudgets'
       /\ (last'.op = "finalize_run" /\ last'.run_id \in RunIds
             /\ IsOpen(last'.run_id)) =>
             LET run == runs[last'.run_id]
                 rate_version == last'.args[1]
                 usage == last'.args[2]
             IN
             /\ Overage(usage, run.budgets) =>
                   /\ last'.err # OK
                   /\ StorageUnchanged
                   /\ runs'[last'.run_id].lifecycle = OpenTag
                   /\ runs'[last'.run_id].escrowed = run.max_charge
                   /\ (validate_non_negative_usage(usage)
                         /\ rate_version = run.rate_version) =>
                         last'.err = "UsageExceedsBudget"
             /\ last'.err = OK =>
                   runs'[last'.run_id].lifecycle.settlement.usage = usage]_vars

\* finalize_run was refused to the authorized runner of an Open run for usage
\* that costs no more than the escrow and is above the budgets in one dimension
C24_Witness ==
    /\ last.op = "finalize_run" /\ last.err = "UsageExceedsBudget"
    /\ last.run_id \in RunIds /\ IsOpen(last.run_id)
    /\ Authorized(runs[last.run_id].user, last.caller, runs[last.run_id].agent_id)
    /\ Overage(last.args[2], runs[last.run_id].budgets)
    /\ runs[last.run_id].escrowed > 0
    /\ TrueCharge(get_rate_card(runs[last.run_id].agent_id,
                                runs[last.run_id].rate_version), last.args[2])
          <= runs[last.run_id].max_charge

\* open_run is called on an initialized vault by the user or by a runner it has
\* authorized, with non-negative budgets that the rate card named can price
Priced(user, caller, agent_id, rate_version, budgets) ==
    /\ agentRegistry # NoAddr
    /\ caller = user \/ Authorized(user, caller, agent_id)
    /\ validate_non_negative_usage(budgets)
    /\ HasRateCard(agent_id, rate_version)
    /\ IsSome(compute_charge(get_rate_card(agent_id, rate_version), budgets))

PriceOf(agent_id, rate_version, budgets) ==
    TrueCharge(get_rate_card(agent_id, rate_version), budgets)

\* C25 as stated: an open_run whose max_charge is above a positive per_run_cap
\* fails with PerRunCapExceeded.
C25_AsStated ==
    \A u \in Users, c \in RunCapInputs.callers, a \in 1..MaxAgents,
       v \in 1..MaxRateVersion, b \in RunCapInputs.usages :
       (/\ Priced(u, c, a, v, b)
        /\ userPolicy[u].per_run_cap > 0
        /\ PriceOf(a, v, b) > userPolicy[u].per_run_cap) =>
          open_run(u, c, a, v, b).err = "PerRunCapExceeded"

\* C25: a run opened while the user's per_run_cap is positive has max_charge <=
\* that per_run_cap; an open_run whose max_charge is above a positive
\* per_run_cap always fails and changes nothing, with PolicyPaused when the
\* policy is paused and with PerRunCapExceeded when it is not; with per_run_cap
\* = 0 no open_run fails with PerRunCapExceeded, with daily_cap = 0 none fails
\* with DailyCapExceeded and an open_run that returns adds nothing to
\* reserved_today.
C25_PerRunCap ==
    [][last'.op = "open_run" =>
          LET u == last'.user
              policy == userPolicy[u]
              price == PriceOf(last'.args[1], last'.args[2], last'.args[3])
              priced == Priced(u, last'.caller, last'.args[1], last'.args[2],
                               last'.args[3])
          IN
          /\ last'.err = OK =>
                /\ priced /\ runs'[last'.ret].max_charge = price
                /\ policy.per_run_cap > 0 => price <= policy.per_run_cap
                /\ policy.daily_cap = 0 =>
                      userPolicy'[u].reserved_today =
                         ensure_day(policy, current_day).reserved_today
          /\ (priced /\ policy.per_run_cap > 0 /\ price > policy.per_run_cap) =>
                /\ last'.err = (IF policy.paused THEN "PolicyPaused"
                                ELSE "PerRunCapExceeded")
                /\ StorageUnchanged
          /\ policy.per_run_cap = 0 => last'.err # "PerRunCapExceeded"
          /\ policy.daily_cap = 0 => last'.err # "DailyCapExceeded"
          /\ (priced /\ ~policy.paused /\ policy.per_run_cap = 0
                /\ policy.daily_cap = 0 /\ price <= userBalance[u]) =>
                last'.err = OK]_vars

\* open_run was refused on the per-run cap alone: the balance covers the price
C25_Witness ==
    /\ last.op = "open_run" /\ last.err = "PerRunCapExceeded"
    /\ userPolicy[last.user].per_run_cap > 0
    /\ PriceOf(last.args[1], last.args[2], last.args[3])
          > userPolicy[last.user].per_run_cap
    /\ PriceOf(last.args[1], last.args[2], last.args[3]) <= userBalance[last.user]

\* C26: open_run makes every check that can reject the call before its first
\* write: in every reachable state, an open_run that fails has, by the time it
\* panics, stored no policy (reservation, day rollover) and no grant list
\* (pruned) other than the ones that were stored before the call.
C26_ValidationBeforeMutation ==
    \A u \in Users, c \in RejectionInputs.callers, a \in 1..MaxAgents,
       v \in 1..MaxRateVersion, b \in RejectionInputs.usages :
       LET out == open_run(u, c, a, v, b) IN
       out.err # OK =>
          /\ out.policy = userPolicy[u]
          /\ out.store = runnerGrants[u]

ReservedNonNegative == \A a \in Addr : userPolicy[a].reserved_today >= 0

\* C27: a finalize_run or cancel_run that returns first applies the day
\* rollover to the user's policy (reserved_today counts as 0 when reserved_day
\* is not the current day) and then stores reserved_today = max(0,
\* reserved_today - run.max_charge) with reserved_day = the current day, the
\* caps and the pause flag untouched; reserved_today >= 0 in every reachable
\* state; a release on a later day than reserved_day leaves reserved_today = 0.
C27_ReleaseClamped ==
    [][/\ ReservedNonNegative /\ ReservedNonNegative'
       /\ (last'.op \in {"finalize_run", "cancel_run"} /\ last'.err = OK
             /\ runs' # runs) =>
             LET run == runs[last'.run_id]
                 policy == userPolicy[run.user]
                 rolled == IF policy.reserved_day # current_day THEN 0
                           ELSE policy.reserved_today
                 left == rolled - run.max_charge
             IN
             /\ userPolicy'[run.user] =
                   [policy EXCEPT !.reserved_day = current_day,
                                  !.reserved_today = IF left > 0 THEN left ELSE 0]
             /\ policy.reserved_day < current_day =>
                   /\ userPolicy'[run.user].reserved_today = 0
                   /\ userPolicy'[run.user].reserved_day = current_day]_vars

\* the first release of any of the user's runs, all opened on day 0 under a
\* daily cap, was made on day 1 and left reserved_today = 0 on day 1
C27_Witness ==
    /\ last.op \in {"finalize_run", "cancel_run"} /\ last.err = OK
    /\ current_day = 1
    /\ \A id \in RunIds : runs[id].opened_at \div SecondsPerDay = 0
    /\ \A id \in RunIds \ {last.run_id} : IsOpen(id)
    /\ Cardinality(RunIds) >= 2
    /\ runs[last.run_id].max_charge > 0
    /\ userPolicy[runs[last.run_id].user].reserved_today = 0
    /\ userPolicy[runs[last.run_id].user].reserved_day = 1

\* the view of a stored grant list that a read at ledger time t derives: the
\* grants not expired at t, in order
LiveAt(grants, t) ==
    SelectSeq(grants, LAMBDA g : ~(IsSome(g.expires_at) /\ Unwrap(g.expires_at) <= t))

\* the ledger times of the model from now on
LaterTimes == {t \in {k * TimeStep : k \in 0..(MaxTicks + 1)} : t >= now}

\* the stored lists before and after the step give every read from now on the
\* same view
SameViews ==
    \A u \in Addr, t \in LaterTimes :
        LiveAt(StoredGrantsAfter(u), t) = LiveAt(read_runner_grants(u), t)

\* a read has just returned: is_runner_authorized or list_runner_grants
ReadCall == last'.op \in {"is_runner_authorized", "list_runner_grants"}

\* is_runner_authorized was called for a pair with an unexpired grant whose
\* runner the registry does not list
StaleRead ==
    /\ last'.op = "is_runner_authorized"
    /\ LiveGrant(last'.user, last'.caller, last'.args[1])
    /\ ~Registered(last'.args[1], last'.caller)

\* C28 as stated: a read changes nothing but the stored grant lists, and the
\* lists it leaves give every later read the view the lists before it gave.
C28_AsStated ==
    [][ReadCall =>
          /\ UNCHANGED <<now, registryVars, agentRegistry, nextRunId, userBalance,
                         developerBalance, userPolicy, runs>>
          /\ SameViews]_vars

\* C28: list_runner_grants, and is_runner_authorized unless it finds an
\* unexpired grant whose runner the registry does not list, change nothing but
\* the stored grant lists and leave lists that give every later read the view
\* the lists before gave, so that the calls that go through the grant list
\* (is_runner_authorized, grant_runner, revoke_runner) have the outcome they had
\* before the read; is_runner_authorized on an unexpired grant whose runner the
\* registry does not list removes that grant from the view of every later read.
C28_ReadWriteBack ==
    [][ReadCall =>
          /\ UNCHANGED <<now, registryVars, agentRegistry, nextRunId, userBalance,
                         developerBalance, userPolicy, runs>>
          /\ ~StaleRead =>
                /\ SameViews
                /\ \A u \in Users, r \in GrantInputs.callers, a \in 1..MaxAgents :
                      /\ ensure_runner_authorized(u, r, a).result
                            = ensure_runner_authorized(u, r, a).result'
                      /\ GrantRunnerErr(u, r, a) = GrantRunnerErr(u, r, a)'
                      /\ RevokeRunnerErr(u, r, a) = RevokeRunnerErr(u, r, a)'
          /\ StaleRead =>
                /\ last'.ret = FALSE
                /\ \A t \in LaterTimes :
                      LiveAt(StoredGrantsAfter(last'.user), t) =
                         SelectSeq(LiveAt(read_runner_grants(last'.user), t),
                                   LAMBDA g : ~(g.runner = last'.caller
                                                  /\ g.agent_id = last'.args[1]))
                /\ \A u \in Addr \ {last'.user} :
                      StoredGrantsAfter(u) = read_runner_grants(u)]_vars

\* list_runner_grants has returned an empty list on the day after the runner
\* opened the run on record, and nothing is stored for the user any more
C28_Witness ==
    /\ last.op = "list_runner_grants" /\ last.err = OK /\ last.ret = <<>>
    /\ runnerGrants[last.user] = None
    /\ now > 0
    /\ \E id \in RunIds :
          /\ runs[id].user = last.user /\ runs[id].opened_by # last.user
          /\ runs[id].opened_at = 0

\* no user has an empty grant list stored: the entry is absent instead
NoEmptyGrantList == \A u \in Addr : runnerGrants[u] # Some(<<>>)

\* C29: revoke_runner(user, runner, agent_id) returns exactly when the user's
\* stored list holds an unexpired grant for (runner, agent_id), and fails with
\* RunnerGrantNotFound when the only grant for the pair has expired or there is
\* none; when it returns, the stored list is the earlier one without that
\* grant and without the expired grants, the other unexpired grants kept in
\* order, is_runner_authorized for the pair is false, and a grant for the pair
\* is stored again only by a grant_runner that returns; a list left empty is
\* removed from the storage, never stored empty.
C29_RevokeRunner ==
    [][/\ NoEmptyGrantList /\ NoEmptyGrantList'
       /\ \A u \in Users, r \in PairInputs.runners, a \in 1..PairAgents :
             /\ RevokeRunnerErr(u, r, a) =
                   (IF LiveGrant(u, r, a) THEN OK ELSE "RunnerGrantNotFound")
             /\ (~StoresGrant(read_runner_grants(u), r, a)
                   /\ StoresGrant(StoredGrantsAfter(u), r, a)) =>
                   /\ last'.op = "grant_runner" /\ last'.err = OK
                   /\ last'.user = u /\ last'.caller = r /\ last'.args[1] = a
       /\ \A u \in Users, r \in PairInputs.runners, a \in 1..PairAgents :
             (/\ last'.op = "revoke_runner" /\ last'.err = OK
              /\ last'.user = u /\ last'.caller = r /\ last'.args[1] = a) =>
             /\ LiveGrant(u, r, a)
             /\ StoredGrantsAfter(u) =
                   SelectSeq(read_runner_grants(u),
                             LAMBDA g : ~Expired(g)
                                        /\ ~(g.runner = r /\ g.agent_id = a))
             /\ runnerGrants'[u] =
                   (IF StoredGrantsAfter(u) = <<>> THEN None
                    ELSE Some(StoredGrantsAfter(u)))
             /\ ~ensure_runner_authorized(u, r, a).result'
             /\ \A v \in Addr \ {u} : runnerGrants'[v] = runnerGrants[v]
             /\ UNCHANGED <<now, registryVars, agentRegistry, nextRunId, userBalance,
                            developerBalance, userPolicy, runs>>]_vars

\* revoke_runner has returned on the day a grant for another agent expired: the
\* user's stored list is gone
C29_Witness ==
    /\ last.op = "revoke_runner" /\ last.err = OK
    /\ now = SecondsPerDay
    /\ runnerGrants[last.user] = None
    /\ \E id \in RunIds :
          /\ runs[id].user = last.user /\ runs[id].opened_by = last.caller
          /\ runs[id].agent_id # last.args[1] /\ runs[id].opened_at = 0

\* every rate card the registry stores stays stored with the rates it has
RateCardsKept ==
    \A k \in DOMAIN rateCards :
        k \in DOMAIN rateCards' /\ rateCards'[k] = rateCards[k]

\* every rate card the registry stores has non-negative rates
StoredRatesNonNegative ==
    \A k \in DOMAIN rateCards : validate_non_negative(rateCards[k])

\* every Open run can be settled for any non-negative usage within its budgets:
\* the rate card of its version is stored and prices that usage at no more than
\* the run's max_charge
WithinBudgetsWithinCharge ==
    \A id \in RunIds :
        IsOpen(id) =>
           /\ HasRateCard(runs[id].agent_id, runs[id].rate_version)
           /\ \A usage \in ChargeVectors :
                 ~Overage(usage, runs[id].budgets) =>
                    TrueCharge(get_rate_card(runs[id].agent_id, runs[id].rate_version),
                               usage) <= runs[id].max_charge

\* C30: no registry operation changes or removes a stored rate card
\* (publish_rate_card writes the version after the latest), every stored rate
\* card has non-negative rates, so for every Open run every non-negative usage
\* within the run's budgets is priced by the run's rate card at no more than
\* max_charge, and a finalize_run on an Open run that fails with
\* UsageExceedsBudget was given usage above the budgets in some dimension: the
\* comparison of actual_charge with max_charge never rejects a call.
C30_SafetyNetUnreachable ==
    [][/\ RateCardsKept
       /\ StoredRatesNonNegative /\ StoredRatesNonNegative'
       /\ WithinBudgetsWithinCharge /\ WithinBudgetsWithinCharge'
       /\ (last'.op = "publish_rate_card" /\ last'.err = OK) =>
             /\ last'.ret = agents[last'.args[1]].latest_rate_version + 1
             /\ <<last'.args[1], last'.ret>> \notin DOMAIN rateCards
             /\ rateCards'[<<last'.args[1], last'.ret>>] = last'.args[2]
       /\ (last'.op = "finalize_run" /\ last'.run_id \in RunIds
             /\ IsOpen(last'.run_id) /\ last'.err = "UsageExceedsBudget") =>
             Overage(last'.args[2], runs[last'.run_id].budgets)]_vars

\* finalize_run has settled a run for usage equal to its budgets at exactly
\* max_charge, after the registry published a second version with other rates
C30_Witness ==
    /\ last.op = "finalize_run" /\ last.err = OK
    /\ last.run_id \in RunIds /\ IsFinalized(last.run_id)
    /\ runs[last.run_id].lifecycle.settlement.usage = runs[last.run_id].budgets
    /\ last.receipt.actual_charge = runs[last.run_id].max_charge
    /\ runs[last.run_id].max_charge > 0
    /\ runs[last.run_id].rate_version = 1
    /\ HasRateCard(runs[last.run_id].agent_id, 2)
    /\ get_rate_card(runs[last.run_id].agent_id, 2)
          # get_rate_card(runs[last.run_id].agent_id, 1)

RECURSIVE SumOver(_, _)
SumOver(balance, addrs) ==
    IF addrs = {} THEN 0
    ELSE LET a == CHOOSE x \in addrs : TRUE IN
         balance[a] + SumOver(balance, addrs \ {a})

\* everything the vault holds: the user balances, the developer balances and
\* the escrow of the Open runs
FundsHeld ==
    SumOver(userBalance, Addr) + SumOver(developerBalance, Addr)
       + SumEscrowed({id \in RunIds : IsOpen(id)})

\* the amount a call that returned took in (deposit) or paid out (withdraw,
\* claim_developer); nothing for every other call
NetInflow(call) ==
    IF call.err # OK THEN 0
    ELSE IF call.op = "deposit" THEN call.args[1]
    ELSE IF call.op \in {"withdraw", "claim_developer"} THEN 0 - call.args[1]
    ELSE 0

\* C31: the user balances, the developer balances and the escrow of the Open
\* runs together start at 0 and change with every step by exactly the amount of
\* a deposit that returned, minus the amount of a withdraw or claim_developer
\* that returned, so that in every reachable state they add up to the total
\* deposited less the totals withdrawn and claimed; open_run, finalize_run and
\* cancel_run leave the total as it is, and set_policy, grant_runner,
\* revoke_runner, list_runner_grants and is_runner_authorized change no balance
\* and no run.
C31_FundsConserved ==
    [][/\ (last.op = "deploy" => FundsHeld = 0)
       /\ FundsHeld' = FundsHeld + NetInflow(last')
       /\ last'.op \in {"open_run", "finalize_run", "cancel_run"} =>
             FundsHeld' = FundsHeld
       /\ last'.op \in {"set_policy", "grant_runner", "revoke_runner",
                        "list_runner_grants", "is_runner_authorized"} =>
             UNCHANGED <<userBalance, developerBalance, runs, nextRunId>>]_vars

\* finalize_run has settled one run, with a charge and a refund, while another
\* run is Open: funds are held as user balance, developer balance and escrow
C31_Witness ==
    /\ last.op = "finalize_run" /\ last.err = OK
    /\ last.receipt.actual_charge > 0 /\ last.receipt.refund > 0
    /\ \E id \in RunIds : IsOpen(id) /\ runs[id].escrowed > 0
    /\ \E d \in Developers : developerBalance[d] > 0
    /\ \E u \in Users : userBalance[u] > 0

\* a run leaves Open only by a finalize_run or cancel_run on its id that
\* returned; until then its record stays as it is
OpenUntilClosed ==
    \A id \in RunIds :
        IsOpen(id) =>
           /\ id \in DOMAIN runs'
           /\ \/ runs'[id] = runs[id]
              \/ /\ last'.op \in {"finalize_run", "cancel_run"}
                 /\ last'.err = OK /\ last'.run_id = id
                 /\ ~is_open(runs'[id])

\* the refund of an Open run fits on top of the balance of the run's user
RefundFits(id) == Fits(userBalance[runs[id].user] + runs[id].escrowed)

\* C32 as the specification words it: in every reachable state where a run is
\* Open, cancel_run by the run's user succeeds, whatever the user's balance.
C32_AsStated ==
    \A id \in RunIds : IsOpen(id) => cancel_run(runs[id].user, id).err = OK

\* C32: a run that is Open stays Open, with its record unchanged, across the
\* passage of time and every operation other than a finalize_run or cancel_run
\* on its id that returns; for every Open run, cancel_run by the run's user
\* succeeds whatever the pause flag, the caps, the grant list and the registry's
\* runner set are, provided the user's balance plus the run's escrow is
\* representable; when it is not, cancel_run fails with InvalidAmount and some
\* withdraw by the user succeeds and leaves a balance on which the refund fits,
\* so the escrow can always be recovered.
C32_UserCanAlwaysExit ==
    [][/\ OpenUntilClosed
       /\ \A id \in RunIds :
             IsOpen(id) =>
                LET user == runs[id].user IN
                /\ cancel_run(user, id).err =
                      (IF RefundFits(id) THEN OK ELSE "InvalidAmount")
                /\ ~RefundFits(id) =>
                      \E amount \in 1..MaxI128 :
                         /\ WithdrawErr(user, amount) = OK
                         /\ Fits(userBalance[user] - amount + runs[id].escrowed)
       /\ (last'.op = "cancel_run" /\ last'.err = OK) =>
             /\ IsOpen(last'.run_id)
             /\ runs'[last'.run_id].lifecycle.tag = "Cancelled"
             /\ runs'[last'.run_id].escrowed = 0
             /\ last'.user = runs[last'.run_id].user
             /\ userBalance'[last'.user] =
                   userBalance[last'.user] + runs[last'.run_id].escrowed]_vars

\* the user has cancelled a run a delegated runner opened, while the policy is
\* paused and capped, the user's grant list is empty and the registry no longer
\* lists the runner
C32_Witness ==
    /\ last.op = "cancel_run" /\ last.err = OK
    /\ last.run_id \in RunIds /\ IsCancelled(last.run_id)
    /\ runs[last.run_id].opened_by # runs[last.run_id].user
    /\ userPolicy[last.user].paused /\ userPolicy[last.user].per_run_cap > 0
    /\ runnerGrants[last.user] = None
    /\ ~is_runner(runs[last.run_id].agent_id, runs[last.run_id].opened_by)
    /\ now > runs[last.run_id].opened_at

====
